---- MODULE Spec2Model ----
(***************************************************************************)
(* Transcript parser: the browser client's batch pipeline (src/app.js).    *)
(*                                                                         *)
(* The page is single-threaded: every action below is one event handler    *)
(* or one continuation of an async function, run from the point where it   *)
(* is resumed to the point where it next suspends (await) or returns.      *)
(* Promise continuations (microtasks) run before the next event, so the    *)
(* continuation of handleParse after Promise.all is part of the step of    *)
(* the runner that settles the Promise.                                    *)
(*                                                                         *)
(* Strings are sequences of characters or of message tokens, so that       *)
(* trimming and concatenation are computed, not assumed.                   *)
(***************************************************************************)
EXTENDS Integers, Sequences, FiniteSets, TLC

\* ------------------------------------------------------------------ bounds
\* Files the user can pick: named 1..MaxFiles; the order of the numbers stands
\* for the localeCompare order of the names.
MaxFiles == 2
\* Jobs (processFile calls) started in one behaviour, over all its batches.
MaxJobs == 2
\* Chunk records one response delivers.
MaxChunks == 1
\* Lines one reader.read() delivers.
MaxLinesPerRead == 1

FileNames == 1..MaxFiles

\* Values the prompt textarea takes: empty, blank, and a text with a leading blank.
PromptTexts == {<<>>, <<" ">>, <<" ", "p">>}

\* Payloads of the chunk records of a response.
Payloads == {<<"a">>}

\* The providers api/llm.js dispatches on, and the values of the model input:
\* empty (the backend's default model) and a model name with a trailing blank.
Providers == {"openai", "anthropic", "gemini"}
ModelTexts == {<<>>, <<"m", " ">>}

\* ------------------------------------------------------------------ messages
UnexpectedEnd == <<"Unexpected end of JSON input">>
UnexpectedToken == <<"Unexpected token">>
RateLimited == <<"rate limited">>
MissingPromptOrText == <<"Missing prompt or text">>
CorruptPDF == <<"corrupt PDF">>
TypeErrorMsg == <<"Cannot set properties of undefined">>

ToastNone == "none"
ToastNoFiles == "Please upload at least one PDF file"
ToastNoPrompt == "Please enter a prompt"
ToastCleared == "All files and results cleared"

\* ------------------------------------------------------------------ state
VARIABLES
    uploadedFiles,     \* sequence of file names, kept sorted and without duplicates
    promptInput,       \* promptInput.value
    parseBtnDisabled,  \* parseBtn.disabled
    currentResults,    \* the result table: one record per job of the latest batch
    toast,             \* the message showToast displayed last
    resultsContainer,  \* what updateResultsDisplay rendered last
    batches,           \* one entry per handleParse call that passed its checks
    runners,           \* runners[b][i]: the processFile call of batch b for index i
    providerSelect,    \* providerSelect.value
    modelInput,        \* modelInput.value
    reader,            \* one read loop over a response body (client or backend)
    handler,           \* one call of the backend's handler (api/llm.js)
    twin,              \* a second call of the handler, followed next to the first
    savedPrompts,      \* the array savedPrompts
    storedPrompts,     \* localStorage's item 'savedPrompts'
    promptsTable,      \* the rows of the remote table 'prompts' of the user
    promptNameInput,   \* promptNameInput.value
    currentUser,       \* supabaseClient && currentUser: a user is logged in
    promptCalls,       \* the calls of saveUserPrompt and deleteUserPrompt so far
    cleaner            \* one call of cleanOutput: its argument and what it returned

\* The page, the settings of the provider, and the two components that are
\* followed on their own.
pageVars == <<uploadedFiles, promptInput, parseBtnDisabled, currentResults, toast,
              resultsContainer, batches, runners>>
configVars == <<providerSelect, modelInput>>
promptVars == <<savedPrompts, storedPrompts, promptsTable, promptNameInput,
                currentUser, promptCalls>>
partVars == <<reader, handler, twin, promptVars, cleaner>>
\* What a step of the read loop, and a step of the handler, leave alone.
exceptReader == <<pageVars, configVars, handler, twin, promptVars, cleaner>>
exceptHandler == <<pageVars, configVars, reader, twin, promptVars, cleaner>>

vars == <<pageVars, configVars, partVars>>

\* ------------------------------------------------------------------ strings
\* String.prototype.trim on a sequence of characters; the white space of the
\* texts is the blank and the line break.
WhiteSpace == {" ", "\n"}

RECURSIVE TrimLeft(_)
TrimLeft(s) ==
    IF s # <<>> /\ Head(s) \in WhiteSpace THEN TrimLeft(Tail(s)) ELSE s

RECURSIVE TrimRight(_)
TrimRight(s) ==
    IF s # <<>> /\ s[Len(s)] \in WhiteSpace
    THEN TrimRight(SubSeq(s, 1, Len(s) - 1)) ELSE s

Trim(s) == TrimRight(TrimLeft(s))

\* Concatenation of a sequence of strings.
RECURSIVE Concat(_)
Concat(ss) == IF ss = <<>> THEN <<>> ELSE Head(ss) \o Concat(Tail(ss))

\* ------------------------------------------------------------------ files
\* uploadedFiles.sort((a, b) => a.name.localeCompare(b.name)) after a push.
RECURSIVE SortedInsert(_, _)
SortedInsert(s, f) ==
    IF s = <<>> THEN <<f>>
    ELSE IF f < Head(s) THEN <<f>> \o s
    ELSE <<Head(s)>> \o SortedInsert(Tail(s), f)

\* uploadedFiles.splice(index, 1)
RemoveAt(s, i) == SubSeq(s, 1, i - 1) \o SubSeq(s, i + 1, Len(s))

HasFile(s, f) == \E k \in 1..Len(s) : s[k] = f

\* ------------------------------------------------------------------ UI
\* updateButtonStates: the value it assigns to parseBtn.disabled.
ButtonDisabledFor(files, prompt) == Len(files) = 0 \/ Trim(prompt) = <<>>

\* ------------------------------------------------------------------ results
StPending == <<"Pending...">>
StExtracting == <<"Extracting text...">>
StLLM == <<"Processing with LLM...">>
StComplete == <<"Complete">>

\* `Error: ${error.message}`
ErrorText(msg) == <<"Error: ">> \o msg

\* `Failed to extract text from ${file.name}: ${error.message}`
ExtractionError(file, cause) ==
    <<"Failed to extract text from ", ToString(file), ": ">> \o cause

\* One element of the array handleParse builds. The field batch is not in the
\* code: it names the handleParse call that built the record.
NewResult(file, b) ==
    [filename |-> file, status |-> "pending", statusText |-> StPending,
     output |-> <<>>, batch |-> b]

\* currentResults[index] is an object (and not undefined).
HasRec(i) == i <= Len(currentResults)

\* ------------------------------------------------------------------ stream lines
\* A complete line of the response body. kind says what the line holds:
\*   "comment"    no 'data: ' prefix (blank line, heartbeat)
\*   "truncated"  'data: ' and a cut-off JSON text
\*   "malformed"  'data: ' and a text that is not JSON
\*   "error"      'data: {"error": val}'
\*   "chunk"      'data: {"chunk": val}'
\*   "done"       'data: {"done": true}'
Line(kind, val) == [kind |-> kind, val |-> val]

Lines ==
    {Line("comment", <<>>), Line("truncated", <<>>), Line("malformed", <<>>),
     Line("done", <<>>), Line("error", RateLimited), Line("error", UnexpectedEnd)}
    \cup {Line("chunk", p) : p \in Payloads}

\* line.trim() && line.startsWith('data: ')
IsDataLine(line) == line.kind # "comment"

\* JSON.parse(data): the message of the SyntaxError it throws, or <<>>.
JSONParseError(line) ==
    CASE line.kind = "truncated" -> UnexpectedEnd
      [] line.kind = "malformed" -> UnexpectedToken
      [] OTHER -> <<>>

\* The state of callLLM's read loop inside one read: fullResult, whether the
\* onChunk callback has written output, and the exception that left the loop.
LoopState(fullResult, wrote, threw, thrown) ==
    [fullResult |-> fullResult, wrote |-> wrote, threw |-> threw, thrown |-> thrown]

\* catch (e) { if (e.message && e.message !== 'Unexpected end of JSON input') throw e; }
Rethrown(msg) == msg # <<>> /\ msg # UnexpectedEnd

\* The body of `for (const line of lines)` for one line; hasRec says whether
\* the callback's write to currentResults[index] succeeds.
ProcessLine(line, st, hasRec) ==
    IF st.threw \/ ~IsDataLine(line) THEN st
    ELSE IF JSONParseError(line) # <<>> THEN
        IF Rethrown(JSONParseError(line))
        THEN LoopState(st.fullResult, st.wrote, TRUE, JSONParseError(line))
        ELSE st
    ELSE IF line.kind = "error" /\ line.val # <<>> THEN
        IF Rethrown(line.val)
        THEN LoopState(st.fullResult, st.wrote, TRUE, line.val)
        ELSE st
    ELSE IF line.kind = "chunk" /\ line.val # <<>> THEN
        IF hasRec
        THEN LoopState(st.fullResult \o line.val, TRUE, FALSE, <<>>)
        ELSE LoopState(st.fullResult \o line.val, st.wrote, TRUE, TypeErrorMsg)
    ELSE st

RECURSIVE ProcessLines(_, _, _)
ProcessLines(lines, st, hasRec) ==
    IF lines = <<>> THEN st
    ELSE ProcessLines(Tail(lines), ProcessLine(Head(lines), st, hasRec), hasRec)

\* The payloads of the chunk records among lines, in order.
RECURSIVE ChunkPayloads(_)
ChunkPayloads(lines) ==
    IF lines = <<>> THEN <<>>
    ELSE (IF Head(lines).kind = "chunk" THEN <<Head(lines).val>> ELSE <<>>)
         \o ChunkPayloads(Tail(lines))

ReadSizes == 1..MaxLinesPerRead

\* What one reader.read() can deliver: 1..MaxLinesPerRead complete lines.
Reads == UNION {[1..n -> Lines] : n \in ReadSizes}

\* ------------------------------------------------------------------ runners
\* Texts extractTextFromPDF returns: '' for a PDF without text, or some text.
ExtractedTexts == {<<>>, <<"t">>}

\* Messages of a request that fails before streaming: the backend's 400, or
\* a non-OK response without an error field.
ServerError == <<"Server error: ">>
RejectMessages == {MissingPromptOrText, ServerError}

\* One processFile call. pc is where it is suspended:
\*   "extracting" in await extractTextFromPDF(file)
\*   "fetching"   in callLLM, in await fetch(...)
\*   "reading"    in callLLM, in await reader.read()
\*   "done"       its promise is fulfilled
\*   "rejected"   its promise is rejected
\* text is pdfText and fullResult the variable of callLLM. The other fields
\* are not in the code; they record what happened to the call:
\*   received    the payloads of the chunk records the response delivered
\*   reqs        the fetch calls it made
\*   extraction  "pending", "ok" (the extractor returned) or "failed"
\*   fate        "running"; "ok" when the body ended with no error surfaced;
\*               "failed" when extraction, the request or the stream failed;
\*               "lost" when a write to currentResults[index] threw
\*   error       the message of the failure, when fate is "failed"
\*   request     the body of the request callLLM built (when reqs > 0)
\*   extractions the calls of extractTextFromPDF it made (one, in its head)
NoRequest == [provider |-> "", modelName |-> <<>>, prompt |-> <<>>, text |-> <<>>]

NewRunner(file) ==
    [pc |-> "extracting", file |-> file, text |-> <<>>, fullResult |-> <<>>,
     received |-> <<>>, reqs |-> 0, extraction |-> "pending",
     fate |-> "running", error |-> <<>>, request |-> NoRequest,
     extractions |-> 1]

\* processFile passing the value of the prompt input at the time of the call.
PromptArgumentLive(b) == Trim(promptInput)

\* The first argument of callLLM in processFile: the constant prompt of the
\* handleParse call that defined the closure.
PromptArgument(b) == batches[b].prompt

\* The body callLLM builds: provider and modelName are read from the selector
\* and the model input when callLLM is entered.
RequestBody(b, text) ==
    [provider |-> providerSelect, modelName |-> Trim(modelInput),
     prompt |-> PromptArgument(b), text |-> text]

\* Promise.race in the place of Promise.all: settled by the first runner that
\* settles.
PromiseRace(status, rs) ==
    IF status # "awaiting" THEN status
    ELSE IF \E k \in 1..Len(rs) : rs[k].pc = "rejected" THEN "rejected"
    ELSE IF \E k \in 1..Len(rs) : rs[k].pc = "done" THEN "resolved"
    ELSE "awaiting"

\* Promise.all over the runners rs of one batch, seen from handleParse: it
\* rejects with the first rejection and is fulfilled once all are fulfilled.
PromiseAll(status, rs) ==
    IF status # "awaiting" THEN status
    ELSE IF \E k \in 1..Len(rs) : rs[k].pc = "rejected" THEN "rejected"
    ELSE IF \A k \in 1..Len(rs) : rs[k].pc = "done" THEN "resolved"
    ELSE "awaiting"

\* What updateResultsDisplay puts in the results container for the table res:
\* one element per record, with its status class, file name and status text,
\* and a preview block, built from the output, for a complete record only;
\* visible says whether the preview block bears the class 'visible', which no
\* new element does.
\* An empty table renders as the empty-state paragraph (no element).
Render(res) ==
    [k \in 1..Len(res) |->
        [class |-> res[k].status, filename |-> res[k].filename,
         statusText |-> res[k].statusText,
         preview |-> IF res[k].status = "complete" THEN <<res[k].output>> ELSE <<>>,
         visible |-> FALSE]]

\* processFile without its updateResultsDisplay() calls.
DisplayNotUpdated(shown, res) == shown

\* A display that updates the elements in place and keeps their classes.
DisplayKeepingClasses(shown, res) ==
    [k \in 1..Len(res) |->
        [Render(res)[k] EXCEPT !.visible = k <= Len(shown) /\ shown[k].visible
                                           /\ res[k].status = "complete"]]

\* The container after processFile has written the table res: every write of
\* processFile is followed by updateResultsDisplay() before its next await.
DisplayAfterWrite(shown, res) == Render(res)

\* A step of runner i of batch b that leaves it as r2, the table as res2 and
\* the results container as shown2, followed by the continuation of
\* handleParse when Promise.all settles (lines 932-934 when it is fulfilled).
RunnerMove(b, i, r2, res2, shown2) ==
    /\ runners' = [runners EXCEPT ![b][i] = r2]
    /\ currentResults' = res2
    /\ resultsContainer' = shown2
    /\ batches' = [batches EXCEPT
                     ![b].status = PromiseAll(batches[b].status, runners'[b])]
    /\ parseBtnDisabled' =
         IF batches[b].status = "awaiting" /\ batches'[b].status = "resolved"
         THEN FALSE ELSE parseBtnDisabled
    /\ UNCHANGED <<uploadedFiles, promptInput, toast, configVars, partVars>>

\* A step in which the runner writes to its record, the table becoming res2,
\* and calls updateResultsDisplay().
RunnerStep(b, i, r2, res2) ==
    RunnerMove(b, i, r2, res2, DisplayAfterWrite(resultsContainer, res2))

\* A step in which the runner writes nothing.
RunnerResumes(b, i, r2) ==
    RunnerMove(b, i, r2, currentResults, resultsContainer)

\* A catch block that checks for its record before it writes: without one the
\* runner ends quietly.
CaughtGuarded(b, i, r, res, msg) ==
    IF i <= Len(res)
    THEN RunnerStep(b, i, [r EXCEPT !.pc = "done"],
                    [res EXCEPT ![i].status = "error",
                                ![i].statusText = ErrorText(msg)])
    ELSE RunnerResumes(b, i, [r EXCEPT !.pc = "done"])

\* The catch block of processFile for an exception with message msg, the table
\* being res when it is entered: when currentResults[index] is undefined its
\* first assignment throws too and the promise of processFile rejects.
Caught(b, i, r, res, msg) ==
    IF i <= Len(res)
    THEN RunnerStep(b, i, [r EXCEPT !.pc = "done"],
                    [res EXCEPT ![i].status = "error",
                                ![i].statusText = ErrorText(msg)])
    ELSE RunnerResumes(b, i, [r EXCEPT !.pc = "rejected"])

Suspended(b, i, pc) ==
    /\ b \in 1..Len(runners)
    /\ i \in 1..Len(runners[b])
    /\ runners[b][i].pc = pc

\* A runner that sends its request a second time before it gives up.
FailedAfterRetry(r, msg) ==
    [r EXCEPT !.fate = "failed", !.error = msg, !.reqs = r.reqs + 1]

\* The runner r after a failure of its own job with message msg.
Failed(r, msg) == [r EXCEPT !.fate = "failed", !.error = msg]

\* The runner r after a write to currentResults[index] threw a TypeError.
Lost(r) == [r EXCEPT !.fate = "lost"]

\* extractTextFromPDF resolves with text: processFile sets the status text and
\* calls callLLM, which sends the request.
ExtractOk(b, i, text) ==
    /\ Suspended(b, i, "extracting")
    /\ LET r == [runners[b][i] EXCEPT !.extraction = "ok", !.text = text] IN
       IF HasRec(i)
       THEN RunnerStep(b, i, [r EXCEPT !.pc = "fetching", !.reqs = r.reqs + 1,
                                       !.request = RequestBody(b, text)],
                       [currentResults EXCEPT ![i].statusText = StLLM])
       ELSE Caught(b, i, Lost(r), currentResults, TypeErrorMsg)

\* extractTextFromPDF throws.
ExtractFail(b, i) ==
    /\ Suspended(b, i, "extracting")
    /\ LET msg == ExtractionError(runners[b][i].file, CorruptPDF)
           r == [runners[b][i] EXCEPT !.extraction = "failed"]
       IN  Caught(b, i, Failed(r, msg), currentResults, msg)

\* The backend answers 200 (api/llm.js: only when text is not empty).
FetchOk(b, i) ==
    /\ Suspended(b, i, "fetching")
    /\ runners[b][i].text # <<>>
    /\ RunnerResumes(b, i, [runners[b][i] EXCEPT !.pc = "reading"])

\* The response is not OK: callLLM throws the error of the response. The
\* backend answers 'Missing prompt or text' only to a request without text.
FetchRejected(b, i, msg) ==
    /\ Suspended(b, i, "fetching")
    /\ runners[b][i].text # <<>> => msg # MissingPromptOrText
    /\ Caught(b, i, Failed(runners[b][i], msg), currentResults, msg)

\* reader.read() delivers lines: one pass of the while loop of callLLM.
ReadLines(b, i, lines) ==
    /\ Suspended(b, i, "reading")
    /\ LET r == runners[b][i]
           st == ProcessLines(lines, LoopState(r.fullResult, FALSE, FALSE, <<>>),
                              HasRec(i))
           r2 == [r EXCEPT !.fullResult = st.fullResult,
                           !.received = r.received \o ChunkPayloads(lines)]
           res2 == IF st.wrote
                   THEN [currentResults EXCEPT ![i].output = st.fullResult]
                   ELSE currentResults
       IN  /\ Len(r2.received) <= MaxChunks
           /\ IF ~st.threw
              THEN IF st.wrote THEN RunnerStep(b, i, r2, res2)
                   ELSE RunnerResumes(b, i, r2)
              ELSE IF st.thrown = TypeErrorMsg
                   THEN Caught(b, i, Lost(r2), res2, st.thrown)
                   ELSE Caught(b, i, Failed(r2, st.thrown), res2, st.thrown)

\* reader.read() reports the end of the body: callLLM returns fullResult and
\* processFile stores the result.
ReadEnd(b, i) ==
    /\ Suspended(b, i, "reading")
    /\ LET r == [runners[b][i] EXCEPT !.fate = "ok"] IN
       IF HasRec(i)
       THEN RunnerStep(b, i, [r EXCEPT !.pc = "done"],
                [currentResults EXCEPT ![i].status = "complete",
                                       ![i].statusText = StComplete,
                                       ![i].output = r.fullResult])
       ELSE Caught(b, i, Lost(r), currentResults, TypeErrorMsg)

\* ------------------------------------------------------------------ handleParse
\* handleParse without its check of the prompt.
ParseRejectionFilesOnly(files, prompt) ==
    IF Len(files) = 0 THEN ToastNoFiles ELSE ToastNone

\* The checks at the head of handleParse: the warning it shows, or ToastNone
\* when it goes on.
ParseRejection(files, prompt) ==
    IF Len(files) = 0 THEN ToastNoFiles
    ELSE IF Trim(prompt) = <<>> THEN ToastNoPrompt
    ELSE ToastNone

\* The table built newest-first (unshift in the place of map).
InitialResultsReversed(files, b) ==
    [k \in 1..Len(files) |-> NewResult(files[Len(files) + 1 - k], b)]

\* currentResults = uploadedFiles.map(file => ({filename: file.name, ...}))
InitialResults(files, b) == [k \in 1..Len(files) |-> NewResult(files[k], b)]

\* A processFile whose head runs only once the runner is resumed.
StartedLater(rec) == rec

\* The head of processFile, run inside uploadedFiles.map before its first await.
Started(rec) == [rec EXCEPT !.status = "processing", !.statusText = StExtracting]

\* A click on the parse button (a disabled button fires no click). When the
\* checks pass, the table is rebuilt, the button disabled and every runner
\* started; each runs up to its first await before handleParse suspends in
\* await Promise.all. The fields provider and modelName of a batch are not in
\* the code: they record what the selector and the model input held when the
\* batch started.
HandleParse ==
    /\ ~parseBtnDisabled
    /\ IF ParseRejection(uploadedFiles, promptInput) # ToastNone
       THEN /\ toast' = ParseRejection(uploadedFiles, promptInput)
            /\ UNCHANGED <<uploadedFiles, promptInput, parseBtnDisabled,
                           currentResults, resultsContainer, batches, runners,
                           configVars, partVars>>
       ELSE /\ Len(Concat(runners)) + Len(uploadedFiles) <= MaxJobs
            /\ LET b == Len(batches) + 1
                   pending == InitialResults(uploadedFiles, b)
               IN  /\ currentResults' = [k \in 1..Len(pending) |-> Started(pending[k])]
                   /\ resultsContainer' = Render(currentResults')
                   /\ batches' = Append(batches,
                          [files |-> uploadedFiles, prompt |-> Trim(promptInput),
                           status |-> "awaiting",
                           provider |-> providerSelect,
                           modelName |-> Trim(modelInput)])
                   /\ runners' = Append(runners,
                          [k \in 1..Len(uploadedFiles) |-> NewRunner(uploadedFiles[k])])
            /\ parseBtnDisabled' = TRUE
            /\ UNCHANGED <<uploadedFiles, promptInput, toast, configVars, partVars>>

\* ------------------------------------------------------------------ the shell
\* addFiles with one PDF file named f (file input or drop).
AddFiles(f) ==
    /\ uploadedFiles' = IF HasFile(uploadedFiles, f) THEN uploadedFiles
                        ELSE SortedInsert(uploadedFiles, f)
    /\ parseBtnDisabled' = ButtonDisabledFor(uploadedFiles', promptInput)
    /\ resultsContainer' = Render(currentResults)
    /\ UNCHANGED <<promptInput, currentResults, toast, batches, runners,
                   configVars, partVars>>

\* A click on the remove button of row index.
RemoveFileByIndex(index) ==
    /\ index \in 1..Len(uploadedFiles)
    /\ uploadedFiles' = RemoveAt(uploadedFiles, index)
    /\ parseBtnDisabled' = ButtonDisabledFor(uploadedFiles', promptInput)
    /\ resultsContainer' = Render(currentResults)
    /\ UNCHANGED <<promptInput, currentResults, toast, batches, runners,
                   configVars, partVars>>

\* The user edits the prompt: the input listener runs updateUI.
PromptEdited(v) ==
    /\ v # promptInput
    /\ promptInput' = v
    /\ parseBtnDisabled' = ButtonDisabledFor(uploadedFiles, promptInput')
    /\ resultsContainer' = Render(currentResults)
    /\ UNCHANGED <<uploadedFiles, currentResults, toast, batches, runners,
                   configVars, partVars>>

HandleClearAll ==
    /\ ~(Len(uploadedFiles) = 0 /\ Len(currentResults) = 0)
    /\ uploadedFiles' = <<>>
    /\ currentResults' = <<>>
    /\ parseBtnDisabled' = ButtonDisabledFor(uploadedFiles', promptInput)
    /\ toast' = ToastCleared
    /\ resultsContainer' = Render(currentResults')
    /\ UNCHANGED <<promptInput, batches, runners, configVars, partVars>>

\* The user picks a provider; the selector has no listener.
ProviderSelected(p) ==
    /\ p # providerSelect
    /\ providerSelect' = p
    /\ UNCHANGED <<pageVars, modelInput, partVars>>

\* The user edits the model input; it has no listener.
ModelEdited(m) ==
    /\ m # modelInput
    /\ modelInput' = m
    /\ UNCHANGED <<pageVars, providerSelect, partVars>>

\* ------------------------------------------------------------------ specification
\* No read loop and no handler call is followed.
Idle == [pc |-> "idle"]

\* The saved prompts of a fresh visitor (user says whether one is logged in):
\* nothing saved, here or remotely.
PromptsInit(user) ==
    /\ savedPrompts = <<>>
    /\ storedPrompts = <<>>
    /\ promptsTable = {}
    /\ promptNameInput = <<>>
    /\ currentUser = user
    /\ promptCalls = <<>>

\* The page after init(): nothing uploaded, an empty prompt, updateUI has run,
\* the first provider selected and no model name.
BatchInit ==
    /\ uploadedFiles = <<>>
    /\ promptInput = <<>>
    /\ parseBtnDisabled = ButtonDisabledFor(<<>>, <<>>)
    /\ currentResults = <<>>
    /\ toast = ToastNone
    /\ resultsContainer = Render(<<>>)
    /\ batches = <<>>
    /\ runners = <<>>
    /\ providerSelect = "openai"
    /\ modelInput = <<>>

\* The page of a visitor who is not logged in; no second handler call.
PageInit ==
    /\ BatchInit
    /\ PromptsInit(FALSE)
    /\ twin = Idle
    /\ cleaner = Idle

Init ==
    /\ PageInit
    /\ reader = Idle
    /\ handler = Idle

\* A batch has at least one job.
BatchIds == 1..MaxJobs

Next ==
    \/ HandleParse
    \/ \E f \in FileNames : AddFiles(f)
    \/ \E k \in FileNames : RemoveFileByIndex(k)
    \/ \E v \in PromptTexts : PromptEdited(v)
    \/ HandleClearAll
    \/ \E b \in BatchIds, i \in FileNames, t \in ExtractedTexts : ExtractOk(b, i, t)
    \/ \E b \in BatchIds, i \in FileNames : ExtractFail(b, i)
    \/ \E b \in BatchIds, i \in FileNames : FetchOk(b, i)
    \/ \E b \in BatchIds, i \in FileNames, m \in RejectMessages : FetchRejected(b, i, m)
    \/ \E b \in BatchIds, i \in FileNames, ls \in Reads : ReadLines(b, i, ls)
    \/ \E b \in BatchIds, i \in FileNames : ReadEnd(b, i)

\* The page with the provider settings left alone.
Spec == Init /\ [][Next]_vars

\* The steps of runner i of batch b: what extractTextFromPDF, fetch and
\* reader.read() can do to it.
RunnerActs(b, i) ==
    \/ \E t \in ExtractedTexts : ExtractOk(b, i, t)
    \/ ExtractFail(b, i)
    \/ FetchOk(b, i)
    \/ \E m \in RejectMessages : FetchRejected(b, i, m)
    \/ \E ls \in Reads : ReadLines(b, i, ls)
    \/ ReadEnd(b, i)

\* The page when every extraction returns or throws and every response is
\* rejected, fails or ends: no runner stays suspended for ever. The user's
\* events are under no obligation.
SpecLive ==
    Spec /\ \A b \in BatchIds : \A i \in FileNames : WF_vars(RunnerActs(b, i))

\* A click on the Preview button of result index, which only the element of
\* a complete record has: togglePreview toggles the class 'visible' of its
\* preview block.
TogglePreview(index) ==
    /\ index \in 1..Len(resultsContainer)
    /\ resultsContainer[index].preview # <<>>
    /\ resultsContainer' =
         [resultsContainer EXCEPT ![index].visible = ~resultsContainer[index].visible]
    /\ UNCHANGED <<uploadedFiles, promptInput, parseBtnDisabled, currentResults,
                   toast, batches, runners, configVars, partVars>>

NextPreview ==
    \/ Next
    \/ \E k \in FileNames : TogglePreview(k)

\* The page with the previews of its results opened and closed.
SpecPreview == Init /\ [][NextPreview]_vars

\* The page with the provider settings changed while batches run: files are
\* added, a prompt typed, batches started, the selector switched between two
\* providers, and every job runs from its extraction to a request the backend
\* refuses.
NextConfig ==
    \/ HandleParse
    \/ \E f \in FileNames : AddFiles(f)
    \/ PromptEdited(<<" ", "p">>)
    \/ \E p \in {"openai", "anthropic"} : ProviderSelected(p)
    \/ \E m \in ModelTexts : ModelEdited(m)
    \/ \E b \in BatchIds, i \in FileNames : ExtractOk(b, i, <<"t">>)
    \/ \E b \in BatchIds, i \in FileNames : FetchRejected(b, i, ServerError)

SpecConfig == Init /\ [][NextConfig]_vars

\* ------------------------------------------------------------------ the file list
\* addFiles and removeFileByIndex on files as the browser hands them over: a
\* name, a MIME type, and the object itself (version tells two files of the
\* same name apart). The page above follows files by their names only.

\* Files one addFiles call receives (one file input change or one drop).
MaxPicked == 2
\* Distinct files that bear the same name.
MaxVersions == 2

PdfType == "application/pdf"
FileTypes == {PdfType, "text/plain"}
PdfSuffix == <<".", "p", "d", "f">>
PickedNames ==
    {<<"a", ".", "p", "d", "f">>, <<"b", ".", "p", "d", "f">>,
     <<"a", ".", "t", "x", "t">>, <<"b", ".", "t", "x", "t">>}

PickedFiles ==
    {[name |-> n, type |-> t, version |-> v] :
        n \in PickedNames, t \in FileTypes, v \in 1..MaxVersions}

\* The FileList of one call.
Picks == UNION {[1..n -> PickedFiles] : n \in 1..MaxPicked}

\* The characters of the names, in collation order.
Alphabet == <<".", "a", "b", "d", "f", "p", "t", "x">>
Rank(c) == CHOOSE k \in 1..Len(Alphabet) : Alphabet[k] = c

\* s.localeCompare(t): negative, zero or positive.
RECURSIVE LocaleCompare(_, _)
LocaleCompare(s, t) ==
    IF s = <<>> /\ t = <<>> THEN 0
    ELSE IF s = <<>> THEN -1
    ELSE IF t = <<>> THEN 1
    ELSE IF Rank(Head(s)) < Rank(Head(t)) THEN -1
    ELSE IF Rank(Head(s)) > Rank(Head(t)) THEN 1
    ELSE LocaleCompare(Tail(s), Tail(t))

\* s.endsWith(suffix)
EndsWith(s, suffix) ==
    /\ Len(suffix) <= Len(s)
    /\ SubSeq(s, Len(s) - Len(suffix) + 1, Len(s)) = suffix

\* The filter of addFiles.
IsPdf(file) == file.type = PdfType \/ EndsWith(file.name, PdfSuffix)

\* uploadedFiles.find(f => f.name === name) finds an entry.
FindByName(s, name) == \E k \in 1..Len(s) : s[k].name = name

\* pdfFiles.forEach: each file is pushed unless an entry bears its name.
RECURSIVE PushNew(_, _)
PushNew(cur, files) ==
    IF files = <<>> THEN cur
    ELSE PushNew(IF FindByName(cur, Head(files).name) THEN cur
                 ELSE Append(cur, Head(files)),
                 Tail(files))

\* Array.prototype.sort with the comparator of addFiles (a stable sort).
RECURSIVE InsertByName(_, _)
InsertByName(sorted, f) ==
    IF sorted = <<>> THEN <<f>>
    ELSE IF LocaleCompare(f.name, Head(sorted).name) < 0 THEN <<f>> \o sorted
    ELSE <<Head(sorted)>> \o InsertByName(Tail(sorted), f)

RECURSIVE SortByName(_)
SortByName(s) ==
    IF s = <<>> THEN <<>>
    ELSE InsertByName(SortByName(SubSeq(s, 1, Len(s) - 1)), s[Len(s)])

\* addFiles without its sort.
AddFilesUnsorted(cur, files) == PushNew(cur, SelectSeq(files, IsPdf))

\* uploadedFiles after addFiles(files): filter, push what is new, sort.
AddFilesTo(cur, files) == SortByName(PushNew(cur, SelectSeq(files, IsPdf)))

\* addFiles(files), with its updateUI().
AddFileList(files) ==
    /\ uploadedFiles' = AddFilesTo(uploadedFiles, files)
    /\ parseBtnDisabled' = ButtonDisabledFor(uploadedFiles', promptInput)
    /\ resultsContainer' = Render(currentResults)
    /\ UNCHANGED <<promptInput, currentResults, toast, batches, runners,
                   configVars, partVars>>

NextFiles ==
    \/ \E files \in Picks : AddFileList(files)
    \/ \E k \in 1..Cardinality(PickedNames) : RemoveFileByIndex(k)

SpecFiles == Init /\ [][NextFiles]_vars

\* ------------------------------------------------------------------ saved prompts
\* The prompt manager: handleSavePrompt, handleDeletePrompt and the buttons of
\* the saved prompts, over localStorage (no user) or the remote table (a user
\* is logged in). A remote call suspends the handler in its await; its answer
\* is a later step, and other events can come in between.

\* Calls of saveUserPrompt and deleteUserPrompt in one behaviour.
MaxPromptCalls == 3

\* What the user types as a name and as a prompt.
PromptNames == {<<"n">>, <<"m", " ">>}
PromptValues == {<<" ", "p">>, <<"q">>}

ToastEnterPrompt == "Please enter a prompt first"
ToastEnterName == "Please enter a name for this prompt"
ToastSelectPrompt == "Please select a prompt to delete"
ToastSaved == "Prompt saved"
ToastUpdated == "Prompt updated"
ToastDeleted == "Prompt deleted"
ToastNotFound == "No prompt with that name found"
ToastSaveFailed == "Failed to save prompt"
ToastUpdateFailed == "Failed to update prompt"
ToastDeleteFailed == "Failed to delete prompt"

\* An entry pushed by savePromptToLocalStorage has no id.
NoId == 0

Entry(name, text, id) == [name |-> name, text |-> text, id |-> id]

\* savedPrompts.findIndex(p => p.name === name), counted from 1; 0 for -1.
FindIndex(saved, name) ==
    IF \E k \in 1..Len(saved) : saved[k].name = name
    THEN CHOOSE k \in 1..Len(saved) :
            /\ saved[k].name = name
            /\ \A j \in 1..(k - 1) : saved[j].name # name
    ELSE 0

\* JSON.stringify(savedPrompts): name and text of each entry, and its id when
\* it has one.
Stringify(saved) ==
    [k \in 1..Len(saved) |->
        IF saved[k].id = NoId THEN [name |-> saved[k].name, text |-> saved[k].text]
        ELSE saved[k]]

\* The prompt input, the name input and the parse button as they are.
Inputs == [prompt |-> promptInput, name |-> promptNameInput, button |-> parseBtnDisabled]

\* Both inputs emptied (the button is not recomputed).
Cleared == [prompt |-> <<>>, name |-> <<>>, button |-> parseBtnDisabled]

\* loadPromptByName(name) on the array saved.
AfterLoad(saved, name) ==
    LET k == FindIndex(saved, name) IN
    IF k = 0 THEN Inputs
    ELSE [prompt |-> saved[k].text, name |-> saved[k].name,
          button |-> ButtonDisabledFor(uploadedFiles, saved[k].text)]

\* A call of saveUserPrompt or deleteUserPrompt: op is "save" or "delete"
\* (localStorage), "insert", "update" or "remove" (remote); id is the id of
\* the entry found; status is "pending" while the remote call is awaited, then
\* "ok", "failed" or "notfound".
Call(op, name, text, id, status) ==
    [op |-> op, name |-> name, text |-> text, id |-> id, status |-> status]

\* One step of the prompt manager.
PromptStep(saved2, stored2, table2, calls2, toast2, after) ==
    /\ savedPrompts' = saved2
    /\ storedPrompts' = stored2
    /\ promptsTable' = table2
    /\ promptCalls' = calls2
    /\ toast' = toast2
    /\ promptInput' = after.prompt
    /\ promptNameInput' = after.name
    /\ parseBtnDisabled' = after.button
    /\ UNCHANGED <<uploadedFiles, currentResults, resultsContainer, batches, runners,
                   currentUser, configVars, reader, handler, twin, cleaner>>

\* A warning of a handler that returns at once.
PromptWarning(msg) ==
    PromptStep(savedPrompts, storedPrompts, promptsTable, promptCalls, msg, Inputs)

\* savePromptToLocalStorage: the array after the update in place or the push.
LocalSaved(saved, name, text) ==
    LET k == FindIndex(saved, name) IN
    IF k # 0 THEN [saved EXCEPT ![k].text = text]
    ELSE Append(saved, Entry(name, text, NoId))

\* A click on Save.
HandleSavePrompt ==
    LET text == Trim(promptInput)
        name == Trim(promptNameInput)
        k == FindIndex(savedPrompts, name)
    IN  IF text = <<>> THEN PromptWarning(ToastEnterPrompt)
        ELSE IF name = <<>> THEN PromptWarning(ToastEnterName)
        ELSE /\ Len(promptCalls) < MaxPromptCalls
             /\ IF ~currentUser
                THEN LET saved2 == LocalSaved(savedPrompts, name, text) IN
                     PromptStep(saved2, Stringify(saved2), promptsTable,
                                Append(promptCalls, Call("save", name, text, NoId, "ok")),
                                IF k # 0 THEN ToastUpdated ELSE ToastSaved,
                                AfterLoad(saved2, name))
                ELSE PromptStep(savedPrompts, storedPrompts, promptsTable,
                                Append(promptCalls,
                                       IF k # 0
                                       THEN Call("update", name, text,
                                                 savedPrompts[k].id, "pending")
                                       ELSE Call("insert", name, text, NoId, "pending")),
                                toast, Inputs)

\* A click on Delete.
HandleDeletePrompt ==
    LET name == Trim(promptNameInput)
        k == FindIndex(savedPrompts, name)
    IN  IF name = <<>> THEN PromptWarning(ToastSelectPrompt)
        ELSE /\ Len(promptCalls) < MaxPromptCalls
             /\ IF k = 0
                THEN PromptStep(savedPrompts, storedPrompts, promptsTable,
                                Append(promptCalls,
                                       Call(IF currentUser THEN "remove" ELSE "delete",
                                            name, <<>>, NoId, "notfound")),
                                ToastNotFound, Inputs)
                ELSE IF ~currentUser
                THEN LET saved2 == RemoveAt(savedPrompts, k) IN
                     PromptStep(saved2, Stringify(saved2), promptsTable,
                                Append(promptCalls, Call("delete", name, <<>>, NoId, "ok")),
                                ToastDeleted, Cleared)
                ELSE PromptStep(savedPrompts, storedPrompts, promptsTable,
                                Append(promptCalls,
                                       Call("remove", name, <<>>, savedPrompts[k].id,
                                            "pending")),
                                toast, Inputs)

\* The id the table gives to the next row.
FreshId ==
    1 + Cardinality({k \in 1..Len(promptCalls) :
                        promptCalls[k].op = "insert" /\ promptCalls[k].status = "ok"})

\* The answer of the remote table to call k: the request took effect (ok) or
\* it came back with an error; then the rest of saveUserPrompt and of
\* handleSavePrompt, or of deleteUserPrompt.
RemoteAnswers(k, ok) ==
    /\ k \in 1..Len(promptCalls)
    /\ promptCalls[k].status = "pending"
    /\ LET c == promptCalls[k]
           calls2 == [promptCalls EXCEPT ![k].status = IF ok THEN "ok" ELSE "failed"]
           Others(p) == p.id # c.id
       IN  CASE c.op = "update" ->
                  IF ok
                  THEN PromptStep(savedPrompts, storedPrompts,
                                  {IF row.id = c.id THEN [row EXCEPT !.text = c.text]
                                   ELSE row : row \in promptsTable},
                                  calls2, ToastUpdated, AfterLoad(savedPrompts, c.name))
                  ELSE PromptStep(savedPrompts, storedPrompts, promptsTable,
                                  calls2, ToastUpdateFailed,
                                  AfterLoad(savedPrompts, c.name))
             [] c.op = "insert" ->
                  IF ok
                  THEN LET saved2 == Append(savedPrompts,
                                            Entry(c.name, c.text, FreshId)) IN
                       PromptStep(saved2, storedPrompts,
                                  promptsTable \cup {Entry(c.name, c.text, FreshId)},
                                  calls2, ToastSaved, AfterLoad(saved2, c.name))
                  ELSE PromptStep(savedPrompts, storedPrompts, promptsTable,
                                  calls2, ToastSaveFailed,
                                  AfterLoad(savedPrompts, c.name))
             [] OTHER ->
                  IF ok
                  THEN PromptStep(SelectSeq(savedPrompts, Others), storedPrompts,
                                  {row \in promptsTable : row.id # c.id},
                                  calls2, ToastDeleted, Cleared)
                  ELSE PromptStep(savedPrompts, storedPrompts, promptsTable,
                                  calls2, ToastDeleteFailed, Inputs)

\* A click on the button of the saved prompt named name.
LoadPromptByName(name) ==
    /\ FindIndex(savedPrompts, name) # 0
    /\ PromptStep(savedPrompts, storedPrompts, promptsTable, promptCalls, toast,
                  AfterLoad(savedPrompts, name))

\* The user types a name.
PromptNameEdited(n) ==
    /\ n # promptNameInput
    /\ promptNameInput' = n
    /\ UNCHANGED <<pageVars, configVars, reader, handler, twin, savedPrompts,
                   storedPrompts, promptsTable, currentUser, promptCalls, cleaner>>

InitPrompts ==
    /\ BatchInit
    /\ \E user \in BOOLEAN : PromptsInit(user)
    /\ reader = Idle
    /\ handler = Idle
    /\ twin = Idle
    /\ cleaner = Idle

NextPrompts ==
    \/ HandleSavePrompt
    \/ HandleDeletePrompt
    \/ \E k \in 1..MaxPromptCalls, ok \in BOOLEAN : RemoteAnswers(k, ok)
    \/ \E n \in PromptNames : LoadPromptByName(Trim(n))
    \/ \E n \in PromptNames : PromptNameEdited(n)
    \/ \E v \in PromptValues : PromptEdited(v)

SpecPrompts == InitPrompts /\ [][NextPrompts]_vars

\* ------------------------------------------------------------------ the read loop
\* The loop that callLLM (client) and streamOpenAI, streamAnthropic and
\* streamGemini (backend) run over a response body: decode the bytes of a read,
\* append them to buffer, split buffer at line feeds, keep the last part, and
\* treat every complete line. Here the bytes of one body reach the loop cut
\* into reads in every possible way.

\* Complete lines a body holds.
MaxRecords == 2

NL == "\n"
DataPrefix == "data: "
DoneMarker == "[DONE]"

\* The one character outside ASCII, its three bytes in UTF-8, and U+FFFD.
Euro == "EUR"
EuroBytes == <<"e2", "82", "ac">>
Replacement == "U+FFFD"

\* TextEncoder: the bytes of a text.
RECURSIVE Encode(_)
Encode(text) ==
    IF text = <<>> THEN <<>>
    ELSE (IF Head(text) = Euro THEN EuroBytes ELSE <<Head(text)>>) \o Encode(Tail(text))

IsProperPrefix(s, t) == Len(s) < Len(t) /\ s = SubSeq(t, 1, Len(s))

Decoded(text, pending) == [text |-> text, pending |-> pending]

\* The UTF-8 decoder fed byte by byte: pending holds the bytes of a character
\* that is not complete yet; a byte that cannot continue or start a character
\* yields U+FFFD.
RECURSIVE DecodeBytes(_, _)
DecodeBytes(pending, bytes) ==
    IF bytes = <<>> THEN Decoded(<<>>, pending)
    ELSE LET seen == pending \o <<Head(bytes)>> IN
         IF seen = EuroBytes THEN
             LET d == DecodeBytes(<<>>, Tail(bytes)) IN Decoded(<<Euro>> \o d.text, d.pending)
         ELSE IF IsProperPrefix(seen, EuroBytes) THEN DecodeBytes(seen, Tail(bytes))
         ELSE IF pending # <<>> THEN
             LET d == DecodeBytes(<<>>, bytes) IN Decoded(<<Replacement>> \o d.text, d.pending)
         ELSE IF \E k \in 2..Len(EuroBytes) : Head(bytes) = EuroBytes[k] THEN
             LET d == DecodeBytes(<<>>, Tail(bytes)) IN Decoded(<<Replacement>> \o d.text, d.pending)
         ELSE
             LET d == DecodeBytes(<<>>, Tail(bytes)) IN Decoded(<<Head(bytes)>> \o d.text, d.pending)

\* decoder.decode(value) without {stream: true}: every read is decoded on its
\* own and a character cut by the end of the read becomes U+FFFD.
DecodeWhole(pending, value) ==
    LET d == DecodeBytes(<<>>, value) IN
    Decoded(d.text \o (IF d.pending = <<>> THEN <<>> ELSE <<Replacement>>), <<>>)

\* decoder.decode(value, {stream: true})
Decode(pending, value) == DecodeBytes(pending, value)

\* buffer.split('\n'): at least one part, the last one being what follows the
\* last line feed.
RECURSIVE SplitLines(_)
SplitLines(text) ==
    IF text = <<>> THEN << <<>> >>
    ELSE LET rest == SplitLines(Tail(text)) IN
         IF Head(text) = NL THEN << <<>> >> \o rest
         ELSE << <<Head(text)>> \o Head(rest) >> \o Tail(rest)

\* JSON texts are sequences of tokens. The objects of the streams have one
\* member: '{' key value '}', the value being a string (or true, when no
\* character stands between key and '}').
ClientKeys == {"chunk", "error", "done"}
OpenAIKey == "choices"
AnthropicKey == "content_block_delta"
GeminiKey == "candidates"
MessageStop == "message_stop"
Keys == ClientKeys \cup {OpenAIKey, AnthropicKey, GeminiKey, MessageStop}

\* The tokens that cannot stand inside a string value; "x" is a character
\* outside any string.
Structural == {"{", "}", NL, DataPrefix, DoneMarker, "x"} \cup Keys

AllValueChars(s) == \A k \in 1..Len(s) : s[k] \notin Structural

\* data is the head of an object that its end cuts off.
IsCutObject(data) ==
    \/ data = <<>>
    \/ data = <<"{">>
    \/ /\ Len(data) >= 2
       /\ data[1] = "{"
       /\ data[2] \in Keys
       /\ AllValueChars(SubSeq(data, 3, Len(data)))

IsObject(data) ==
    /\ Len(data) >= 3
    /\ data[Len(data)] = "}"
    /\ IsCutObject(SubSeq(data, 1, Len(data) - 1))

\* One line of a body as the loops see it: the line is treated when
\* line.trim() is not empty and line.startsWith('data: '), data is
\* line.slice(6).trim(), and JSON.parse(data) yields an object or throws.
ParseLine(line) ==
    IF Trim(line) = <<>> \/ Head(line) # DataPrefix THEN Line("comment", <<>>)
    ELSE LET data == Trim(Tail(line)) IN
         IF IsObject(data) THEN Line(data[2], SubSeq(data, 3, Len(data) - 1))
         ELSE IF IsCutObject(data) THEN Line("truncated", <<>>)
         ELSE Line("malformed", data)

\* The four loops.
ReaderKinds == {"client", "openai", "anthropic", "gemini"}

\* The member a backend loop reads the content from: parsed.choices[0]?.delta
\* ?.content, parsed.delta?.text of a content_block_delta, parsed.candidates
\* ?.[0]?.content?.parts?.[0]?.text.
ContentKey(kind) ==
    CASE kind = "openai" -> OpenAIKey
      [] kind = "anthropic" -> AnthropicKey
      [] kind = "gemini" -> GeminiKey
      [] OTHER -> "chunk"

\* A backend loop that passes an error payload of the provider on to the
\* client as an error record.
BackendWritesForwardingErrors(kind, line) ==
    LET l == ParseLine(line) IN
    IF l.kind = "error" THEN <<Line("error", l.val)>>
    ELSE IF l.kind = ContentKey(kind) /\ l.val # <<>> THEN <<Line("chunk", l.val)>>
    ELSE <<>>

\* The records a backend loop writes to the client for one line: a chunk
\* record when the line holds content that is not empty; every other line,
\* '[DONE]' and lines JSON.parse or the access to the content throws on
\* included, writes nothing.
BackendWrites(kind, line) ==
    IF Trim(line) # <<>> /\ Head(line) = DataPrefix /\ Trim(Tail(line)) = <<DoneMarker>>
    THEN <<>>
    ELSE LET l == ParseLine(line) IN
         IF l.kind = ContentKey(kind) /\ l.val # <<>> THEN <<Line("chunk", l.val)>>
         ELSE <<>>

RECURSIVE BackendWritesAll(_, _)
BackendWritesAll(kind, lines) ==
    IF lines = <<>> THEN <<>>
    ELSE BackendWrites(kind, Head(lines)) \o BackendWritesAll(kind, Tail(lines))

\* The chunk records for which callLLM calls onChunk while it treats ls, the
\* lines of one read: those before the first line that throws.
RECURSIVE ClientYields(_)
ClientYields(ls) ==
    IF ls = <<>> THEN <<>>
    ELSE LET st == ProcessLine(Head(ls), LoopState(<<>>, FALSE, FALSE, <<>>), TRUE) IN
         IF st.threw THEN <<>>
         ELSE (IF st.wrote THEN <<Head(ls)>> ELSE <<>>) \o ClientYields(Tail(ls))

\* A loop of kind kind about to read body. pc is "reading", "ended" (the loop
\* was left by break) or "thrown" (an exception left callLLM); pos counts the
\* bytes read so far, pending is the state of the decoder, out the records
\* yielded so far: the chunk records passed to onChunk (client) or written to
\* the response (backend).
NewReader(kind, body) ==
    [pc |-> "reading", kind |-> kind, body |-> body, pos |-> 0,
     pending |-> <<>>, buffer |-> <<>>, fullResult |-> <<>>, out |-> <<>>,
     thrown |-> <<>>]

\* A pass that treats what follows the last line feed as a line as well.
ReadPassFlushing(rd, value) ==
    LET d == Decode(rd.pending, value)
        parts == SplitLines(rd.buffer \o d.text)
        rd2 == [rd EXCEPT !.pos = rd.pos + Len(value), !.pending = d.pending,
                          !.buffer = <<>>]
    IN  IF rd.kind = "client"
        THEN LET ls == [k \in 1..Len(parts) |-> ParseLine(parts[k])]
                 st == ProcessLines(ls, LoopState(rd.fullResult, FALSE, FALSE, <<>>), TRUE)
             IN  [rd2 EXCEPT !.fullResult = st.fullResult,
                             !.out = rd.out \o ClientYields(ls),
                             !.pc = IF st.threw THEN "thrown" ELSE "reading",
                             !.thrown = st.thrown]
        ELSE [rd2 EXCEPT !.out = rd.out \o BackendWritesAll(rd.kind, parts)]

\* A pass of a client loop that leaves the loop at the first done record.
ReadPassStoppingAtDone(rd, value) ==
    LET d == Decode(rd.pending, value)
        parts == SplitLines(rd.buffer \o d.text)
        all == [k \in 1..(Len(parts) - 1) |-> ParseLine(parts[k])]
        dones == {k \in 1..Len(all) : all[k].kind = "done"}
        stop == IF dones = {} THEN Len(all)
                ELSE CHOOSE k \in dones : \A j \in dones : k <= j
        ls == SubSeq(all, 1, stop)
        st == ProcessLines(ls, LoopState(rd.fullResult, FALSE, FALSE, <<>>), TRUE)
    IN  IF rd.kind = "client"
        THEN [rd EXCEPT !.pos = rd.pos + Len(value), !.pending = d.pending,
                        !.buffer = parts[Len(parts)],
                        !.fullResult = st.fullResult,
                        !.out = rd.out \o ClientYields(ls),
                        !.pc = IF st.threw THEN "thrown"
                               ELSE IF dones # {} THEN "ended" ELSE "reading",
                        !.thrown = st.thrown]
        ELSE [rd EXCEPT !.pos = rd.pos + Len(value), !.pending = d.pending,
                        !.buffer = parts[Len(parts)],
                        !.out = rd.out \o BackendWritesAll(rd.kind, SubSeq(parts, 1, Len(parts) - 1))]

\* One pass of the while loop for a read that delivers value.
ReadPass(rd, value) ==
    LET d == Decode(rd.pending, value)
        parts == SplitLines(rd.buffer \o d.text)
        lines == SubSeq(parts, 1, Len(parts) - 1)
        rd2 == [rd EXCEPT !.pos = rd.pos + Len(value), !.pending = d.pending,
                          !.buffer = parts[Len(parts)]]
    IN  IF rd.kind = "client"
        THEN LET ls == [k \in 1..Len(lines) |-> ParseLine(lines[k])]
                 st == ProcessLines(ls, LoopState(rd.fullResult, FALSE, FALSE, <<>>), TRUE)
             IN  [rd2 EXCEPT !.fullResult = st.fullResult,
                             !.out = rd.out \o ClientYields(ls),
                             !.pc = IF st.threw THEN "thrown" ELSE "reading",
                             !.thrown = st.thrown]
        ELSE [rd2 EXCEPT !.out = rd.out \o BackendWritesAll(rd.kind, lines)]

\* reader.read() delivers the next n bytes of the body.
ReaderRead(n) ==
    /\ reader.pc = "reading"
    /\ n \in 1..(Len(reader.body) - reader.pos)
    /\ reader' = ReadPass(reader, SubSeq(reader.body, reader.pos + 1, reader.pos + n))
    /\ UNCHANGED exceptReader

\* reader.read() reports done: break.
ReaderEnd ==
    /\ reader.pc = "reading"
    /\ reader.pos = Len(reader.body)
    /\ reader' = [reader EXCEPT !.pc = "ended"]
    /\ UNCHANGED exceptReader

\* Lines of the backend's response, as texts.
ChunkLine(val) == <<DataPrefix, "{", "chunk">> \o val \o <<"}">>
ErrorLine(msg) == <<DataPrefix, "{", "error">> \o msg \o <<"}">>
DoneLine == <<DataPrefix, "{", "done", "}">>
GarbageLine == <<DataPrefix, "x">>
CutLine == <<DataPrefix, "{", "chunk", "a">>

ClientLines ==
    {<<>>, ChunkLine(<<"a">>), ChunkLine(<<Euro>>), DoneLine, ErrorLine(RateLimited),
     ErrorLine(UnexpectedEnd), ErrorLine(<<>>), GarbageLine, CutLine}

\* Lines of a provider's response: content in the format of the provider or of
\* another one, an event without content, '[DONE]', the message_stop event, an
\* error payload, and a text that is no JSON.
StopLine == <<DataPrefix, "{", MessageStop, "}">>

UpstreamLines ==
    {<<>>, <<DataPrefix, DoneMarker>>, GarbageLine, StopLine, ErrorLine(RateLimited)}
    \cup {<<DataPrefix, "{", k, "a", "}">> : k \in {OpenAIKey, AnthropicKey, GeminiKey}}
    \cup {<<DataPrefix, "{", k, Euro, "}">> : k \in {OpenAIKey, AnthropicKey, GeminiKey}}
    \cup {<<DataPrefix, "{", k, "}">> : k \in {OpenAIKey, AnthropicKey, GeminiKey}}

\* The text of a body: its lines, each but possibly the last ended by a line feed.
RECURSIVE JoinLines(_, _)
JoinLines(lines, ended) ==
    IF lines = <<>> THEN <<>>
    ELSE Head(lines) \o (IF Len(lines) > 1 \/ ended THEN <<NL>> ELSE <<>>)
         \o JoinLines(Tail(lines), ended)

BodiesOf(lineSet) ==
    {Encode(JoinLines(ls, ended)) :
        ls \in UNION {[1..n -> lineSet] : n \in 0..MaxRecords}, ended \in BOOLEAN}

Bodies(kind) == IF kind = "client" THEN BodiesOf(ClientLines) ELSE BodiesOf(UpstreamLines)

\* One loop, of any kind, over any body, cut into reads in any way.
InitReader ==
    /\ PageInit
    /\ reader \in UNION {{NewReader(kind, body) : body \in Bodies(kind)} :
                            kind \in ReaderKinds}
    /\ handler = Idle

NextReader ==
    \/ \E n \in 1..Len(reader.body) : ReaderRead(n)
    \/ ReaderEnd

SpecReader == InitReader /\ [][NextReader]_vars

\* What processFile makes of the call: 'complete' when callLLM returned,
\* 'error' when it threw.
JobStatus(rd) ==
    CASE rd.pc = "ended" -> "complete"
      [] rd.pc = "thrown" -> "error"
      [] OTHER -> "processing"

\* ------------------------------------------------------------------ the backend
\* One call of handler(req, res) of api/llm.js, from the request to res.end().
\* The provider's response reaches its loop line by line; how the loops treat
\* bytes and cuts is followed by SpecReader.

MethodNotAllowed == <<"Method not allowed">>
InvalidProvider == <<"Invalid provider">>
NoBody == <<"Cannot destructure property 'provider' of 'req.body'">>
KeyNotSet == <<"ANTHROPIC_API_KEY environment variable is not set">>
FetchFailed == <<"fetch failed">>
InvalidKey == <<"invalid api key">>
NoKey == ""

\* `OpenAI API error: ${error.error?.message || response.statusText}`
ProviderError(msg) == <<"API error: ">> \o msg

\* A request: its method, whether req.body is an object, and the members of
\* the body; <<>> stands for a member that is missing or empty.
Request(method, hasBody, provider, prompt, text) ==
    [method |-> method, hasBody |-> hasBody, provider |-> provider,
     prompt |-> prompt, text |-> text]

Requests ==
    {Request(m, hb, pr, p, t) :
        m \in {"POST", "GET"}, hb \in BOOLEAN, pr \in Providers \cup {"other"},
        p \in {<<>>, <<"p">>}, t \in {<<>>, <<"t">>}}

\* A handler call that has not run yet. keySet says whether the environment
\* holds the key of the provider. pc is "start", "fetching" (in the await
\* fetch of a stream function), "streaming" (in await reader.read()) or
\* "returned". statusCode is 0 until the response has a status; json is the
\* error of a res.json(); written the records res.write wrote; calls counts
\* the fetch calls to the provider, reads the lines read from its response;
\* upstream is "none", "nokey" (the stream function threw before its fetch),
\* "rejected" (fetch failed or the response was not OK), "ok". key is the
\* value of the provider's key in the environment (NoKey when it is not set)
\* and sent the key the stream function put into its fetch. lines is not in
\* the code: it records the lines of the provider's response read so far.
NewHandler(req, keySet) ==
    [pc |-> "start", req |-> req, keySet |-> keySet, statusCode |-> 0,
     json |-> <<>>, written |-> <<>>, ended |-> FALSE, calls |-> 0, reads |-> 0,
     upstream |-> "none", key |-> IF keySet THEN "k0" ELSE NoKey, sent |-> NoKey,
     lines |-> <<>>]

\* return res.status(code).json({error: msg})
Refused(h, code, msg) ==
    [h EXCEPT !.pc = "returned", !.statusCode = code, !.json = msg, !.ended = TRUE]

\* A handler whose stream function writes the done record in a finally block,
\* before the catch of the handler writes the error.
WrittenOnFailureAfterDone(written, msg) ==
    written \o <<Line("done", <<>>), Line("error", msg)>>

\* The records written when the catch block of the handler has run for an
\* error with message msg.
WrittenOnFailure(written, msg) == Append(written, Line("error", msg))

\* A catch block that quotes the key of the failed fetch in the error record.
HandlerCaughtQuotingKey(h, msg) ==
    [h EXCEPT !.pc = "returned", !.statusCode = 200,
              !.written = WrittenOnFailure(h.written, Append(msg, h.sent)),
              !.ended = TRUE]

\* The catch block of the handler: the error as a record, then res.end().
HandlerCaught(h, msg) ==
    [h EXCEPT !.pc = "returned", !.statusCode = 200,
              !.written = WrittenOnFailure(h.written, msg), !.ended = TRUE]

\* The request the platform hands to handler: the handler runs to its first
\* return or to the fetch of the stream function, which carries the key.
\* A handler that checks the prompt only.
AfterCallTextUnchecked(h) ==
    LET req == h.req IN
    IF req.method # "POST" THEN Refused(h, 405, MethodNotAllowed)
    ELSE IF ~req.hasBody THEN HandlerCaught(h, NoBody)
    ELSE IF req.prompt = <<>> THEN Refused(h, 400, MissingPromptOrText)
    ELSE IF req.provider \notin Providers THEN Refused(h, 400, InvalidProvider)
    ELSE IF req.provider = "anthropic" /\ ~h.keySet
         THEN HandlerCaught([h EXCEPT !.upstream = "nokey"], KeyNotSet)
    ELSE [h EXCEPT !.pc = "fetching", !.calls = h.calls + 1, !.sent = h.key]

AfterCall(h) ==
    LET req == h.req IN
    IF req.method # "POST" THEN Refused(h, 405, MethodNotAllowed)
    ELSE IF ~req.hasBody THEN HandlerCaught(h, NoBody)
    ELSE IF req.prompt = <<>> \/ req.text = <<>>
         THEN Refused(h, 400, MissingPromptOrText)
    ELSE IF req.provider \notin Providers THEN Refused(h, 400, InvalidProvider)
    ELSE IF req.provider = "anthropic" /\ ~h.keySet
         THEN HandlerCaught([h EXCEPT !.upstream = "nokey"], KeyNotSet)
    ELSE [h EXCEPT !.pc = "fetching", !.calls = h.calls + 1, !.sent = h.key]

HandlerCall ==
    /\ handler.pc = "start"
    /\ handler' = AfterCall(handler)
    /\ UNCHANGED exceptHandler

\* What the stream function throws when its fetch fails or the response is not
\* OK: fetch's own error, the provider's message, or the SyntaxError of
\* response.json() on a body that is empty or no JSON.
UpstreamRejections ==
    {FetchFailed, ProviderError(InvalidKey), UnexpectedEnd, UnexpectedToken}

AfterReject(h, msg) == HandlerCaught([h EXCEPT !.upstream = "rejected"], msg)

UpstreamRejects(msg) ==
    /\ handler.pc = "fetching"
    /\ handler' = AfterReject(handler, msg)
    /\ UNCHANGED exceptHandler

AfterAccept(h) == [h EXCEPT !.pc = "streaming", !.upstream = "ok"]

\* The provider answers OK (it does not without a key).
UpstreamAccepts ==
    /\ handler.pc = "fetching"
    /\ handler.keySet
    /\ handler' = AfterAccept(handler)
    /\ UNCHANGED exceptHandler

\* A loop that takes '[DONE]' and message_stop for the end of the response.
AfterReadStoppingAtEndMarker(h, line) ==
    IF line \in {<<DataPrefix, DoneMarker>>, StopLine}
    THEN [h EXCEPT !.pc = "returned", !.reads = h.reads + 1,
                   !.lines = Append(h.lines, line), !.statusCode = 200,
                   !.written = Append(h.written, Line("done", <<>>)),
                   !.ended = TRUE]
    ELSE [h EXCEPT !.reads = h.reads + 1,
                   !.lines = Append(h.lines, line),
                   !.statusCode = 200,
                   !.written = h.written \o BackendWrites(h.req.provider, line)]

AfterRead(h, line) ==
    [h EXCEPT !.reads = h.reads + 1,
              !.lines = Append(h.lines, line),
              !.statusCode = 200,
              !.written = h.written \o BackendWrites(h.req.provider, line)]

\* reader.read() delivers one line of the provider's response.
UpstreamReads(line) ==
    /\ handler.pc = "streaming"
    /\ handler.reads < MaxRecords
    /\ handler' = AfterRead(handler, line)
    /\ UNCHANGED exceptHandler

AfterEnd(h) ==
    [h EXCEPT !.pc = "returned", !.statusCode = 200,
              !.written = Append(h.written, Line("done", <<>>)),
              !.ended = TRUE]

\* reader.read() reports done: the done record, return, res.end().
UpstreamEnds ==
    /\ handler.pc = "streaming"
    /\ handler' = AfterEnd(handler)
    /\ UNCHANGED exceptHandler

AfterBreak(h) == HandlerCaught(h, FetchFailed)

\* reader.read() rejects: the stream function rethrows to the handler.
UpstreamBreaks ==
    /\ handler.pc = "streaming"
    /\ handler' = AfterBreak(handler)
    /\ UNCHANGED exceptHandler

InitBackend ==
    /\ PageInit
    /\ reader = Idle
    /\ handler \in {NewHandler(req, keySet) : req \in Requests, keySet \in BOOLEAN}

NextBackend ==
    \/ HandlerCall
    \/ \E msg \in UpstreamRejections : UpstreamRejects(msg)
    \/ UpstreamAccepts
    \/ \E line \in UpstreamLines : UpstreamReads(line)
    \/ UpstreamEnds
    \/ UpstreamBreaks

SpecBackend == InitBackend /\ [][NextBackend]_vars

\* The page and the handler side by side: a behaviour follows the page, or it
\* follows one handler call.
NextParts ==
    \/ handler.pc = "idle" /\ Next
    \/ NextBackend

SpecParts == (Init \/ InitBackend) /\ [][NextParts]_vars

\* Two calls of the handler for the same request in deployments that differ
\* in the value of the provider's key only, the provider answering both in
\* the same way: each event reaches every call that waits for it.
KeyValues == {NoKey, "k1", "k2"}

\* The handler called in a deployment whose key is key.
KeyedCall(req, key) ==
    [NewHandler(req, key # NoKey) EXCEPT !.key = key]

Waits(h, pc) == h.pc = pc

\* The calls after an event that takes the first call, when it waits at pc,
\* to h2 and the second to t2.
TwinAfter(pc, h2, t2) ==
    /\ handler' = IF Waits(handler, pc) THEN h2 ELSE handler
    /\ twin' = IF Waits(twin, pc) THEN t2 ELSE twin
    /\ UNCHANGED <<pageVars, configVars, reader, promptVars, cleaner>>

TwinCall ==
    /\ Waits(handler, "start") \/ Waits(twin, "start")
    /\ TwinAfter("start", AfterCall(handler), AfterCall(twin))

TwinRejects(msg) ==
    /\ Waits(handler, "fetching") \/ Waits(twin, "fetching")
    /\ TwinAfter("fetching", AfterReject(handler, msg), AfterReject(twin, msg))

TwinAccepts ==
    /\ Waits(handler, "fetching") \/ Waits(twin, "fetching")
    /\ \A h \in {handler, twin} : Waits(h, "fetching") => h.keySet
    /\ TwinAfter("fetching", AfterAccept(handler), AfterAccept(twin))

TwinReads(line) ==
    /\ Waits(handler, "streaming") \/ Waits(twin, "streaming")
    /\ \A h \in {handler, twin} : Waits(h, "streaming") => h.reads < MaxRecords
    /\ TwinAfter("streaming", AfterRead(handler, line), AfterRead(twin, line))

TwinEnds ==
    /\ Waits(handler, "streaming") \/ Waits(twin, "streaming")
    /\ TwinAfter("streaming", AfterEnd(handler), AfterEnd(twin))

TwinBreaks ==
    /\ Waits(handler, "streaming") \/ Waits(twin, "streaming")
    /\ TwinAfter("streaming", AfterBreak(handler), AfterBreak(twin))

InitTwin ==
    /\ BatchInit
    /\ PromptsInit(FALSE)
    /\ reader = Idle
    /\ cleaner = Idle
    /\ \E req \in Requests : \E k1, k2 \in KeyValues :
          /\ k1 # k2
          /\ handler = KeyedCall(req, k1)
          /\ twin = KeyedCall(req, k2)

NextTwin ==
    \/ TwinCall
    \/ \E msg \in UpstreamRejections : TwinRejects(msg)
    \/ TwinAccepts
    \/ \E line \in UpstreamLines : TwinReads(line)
    \/ TwinEnds
    \/ TwinBreaks

SpecTwin == InitTwin /\ [][NextTwin]_vars

\* `data: ${JSON.stringify(record)}\n\n`, as text.
RECURSIVE EventStream(_)
EventStream(records) ==
    IF records = <<>> THEN <<>>
    ELSE <<DataPrefix, "{", Head(records).kind>> \o Head(records).val \o <<"}", NL, NL>>
         \o EventStream(Tail(records))

\* The client's callLLM on the response of the handler call h: the error it
\* throws for a response that is not OK, else its loop over the event stream.
ClientOf(h) ==
    IF h.statusCode \notin 200..299
    THEN [NewReader("client", <<>>) EXCEPT !.pc = "thrown", !.thrown = h.json]
    ELSE LET body == Encode(EventStream(h.written))
             rd == ReadPass(NewReader("client", body), body)
         IN  IF rd.pc = "thrown" THEN rd ELSE [rd EXCEPT !.pc = "ended"]

\* ------------------------------------------------------------------ vocabulary
\* The states of a job, read from its record.
Phase(rec) ==
    CASE rec.status = "pending" -> "Pending"
      [] rec.status = "processing" /\ rec.statusText = StExtracting -> "Extracting"
      [] rec.status = "processing" -> "Calling"
      [] rec.status = "complete" -> "Complete"
      [] OTHER -> "Failed"

PhaseRank(ph) ==
    CASE ph = "Pending" -> 0
      [] ph = "Extracting" -> 1
      [] ph = "Calling" -> 2
      [] OTHER -> 3

Terminal(rec) == rec.status \in {"complete", "error"}

Records == 1..Len(currentResults)

\* The runner that handleParse launched for record i of the table.
OwnRunner(i) == runners[currentResults[i].batch][i]

\* Runner i of batch b has ended, one way or another.
Ended(b, i) == runners[b][i].fate # "running"

InFlight(b) == batches[b].status = "awaiting"

BatchesStarted == 1..Len(batches)

\* ------------------------------------------------------------------ credentials
\* The handler that resolves the provider's key per request
\* (src/unnamed/part_002), from the request the client builds to the fetch of
\* the stream function, and the header callLLM attaches (src/app.js). How the
\* response is streamed is followed by SpecBackend.

NoHeader == <<>>
NoToken == ""
NoUser == ""
NoKeyConfigured == <<"No API key configured for ">>

\* Session tokens: one the auth service verifies, one it does not (expired).
GoodToken == "good"
BadToken == "bad"
\* supabase.auth.getUser(token): the user of the token, when it verifies.
UserOf(token) == IF token = GoodToken THEN "u1" ELSE NoUser

\* The page's side: whether the Supabase client exists, whether a user is
\* logged in, and session?.access_token (NoToken for none).
ClientStates ==
    [supabaseClient : BOOLEAN, currentUser : BOOLEAN,
     accessToken : {NoToken, GoodToken, BadToken}]

\* getAuthToken(): null (NoToken) without client or user, else the token of
\* the session or null.
GetAuthToken(c) ==
    IF ~c.supabaseClient \/ ~c.currentUser THEN NoToken ELSE c.accessToken

\* The Authorization header callLLM sends: `Bearer ${authToken}` when
\* authToken is truthy, else none.
AuthorizationOf(c) ==
    IF GetAuthToken(c) # NoToken THEN <<"Bearer ", GetAuthToken(c)>> ELSE NoHeader

\* Headers of requests that do not come from the page.
ForeignHeaders == {<<"Basic ", GoodToken>>, <<"bearer ", GoodToken>>}

\* The deployment: whether SUPABASE_URL and the service key are set, the
\* provider keys of the environment, whether the encryption secret is set.
EnvKeyOf(provider) ==
    CASE provider = "openai" -> "env-openai"
      [] provider = "anthropic" -> "env-anthropic"
      [] provider = "gemini" -> "env-gemini"
      [] OTHER -> NoKey

Deployments == [supabase : BOOLEAN, envKeys : BOOLEAN, secret : BOOLEAN]

\* The row of user_api_keys for the user and the provider: none, one that
\* decrypts, or one that does not.
UserRows == {"none", "saved", "corrupt"}
UserKey == "user-key"

\* A call of the handler for a request the client has not sent yet. userId,
\* apiKey and isUserKey are the handler's variables; sent is the key the
\* stream function puts into its fetch.
NewKeyedHandler(client, req, env, row) ==
    [pc |-> "unsent", client |-> client, req |-> req, authorization |-> NoHeader,
     env |-> env, row |-> row, userId |-> NoUser, apiKey |-> NoKey,
     isUserKey |-> FALSE, statusCode |-> 0, json |-> <<>>, written |-> <<>>,
     ended |-> FALSE, calls |-> 0, sent |-> NoKey]

\* The page sends the request: callLLM builds the headers.
ClientSends ==
    /\ handler.pc = "unsent"
    /\ handler' = [handler EXCEPT !.pc = "start",
                                  !.authorization = AuthorizationOf(handler.client)]
    /\ UNCHANGED exceptHandler

\* Another client sends the request with a header of its own.
ForeignSends(header) ==
    /\ handler.pc = "unsent"
    /\ handler' = [handler EXCEPT !.pc = "start", !.authorization = header]
    /\ UNCHANGED exceptHandler

\* authHeader.startsWith('Bearer ')
IsBearer(header) == header # NoHeader /\ Head(header) = "Bearer "

\* getApiKey's fallback: process.env.<PROVIDER>_API_KEY.
EnvKey(h) == IF h.env.envKeys THEN EnvKeyOf(h.req.provider) ELSE NoKey

\* From the result of getApiKey to the return or to the fetch of the stream
\* function: userKey is the key getUserApiKey returned (NoKey for null).
Resolved(h, userKey) ==
    LET apiKey == IF userKey # NoKey THEN userKey ELSE EnvKey(h)
        h2 == [h EXCEPT !.apiKey = apiKey, !.isUserKey = userKey # NoKey]
    IN  IF apiKey = NoKey THEN Refused(h2, 400, NoKeyConfigured)
        ELSE IF h.req.provider \notin Providers THEN Refused(h2, 400, InvalidProvider)
        ELSE [h2 EXCEPT !.pc = "fetching", !.calls = h.calls + 1, !.sent = apiKey]

\* The handler runs to its first return or await.
KeyedHandlerCall ==
    /\ handler.pc = "start"
    /\ LET h == handler
           req == h.req
       IN  handler' =
             IF req.method # "POST" THEN Refused(h, 405, MethodNotAllowed)
             ELSE IF ~req.hasBody THEN HandlerCaught(h, NoBody)
             ELSE IF req.prompt = <<>> \/ req.text = <<>>
                  THEN Refused(h, 400, MissingPromptOrText)
             ELSE IF h.env.supabase /\ IsBearer(h.authorization)
                  THEN [h EXCEPT !.pc = "verifying"]
             ELSE Resolved(h, NoKey)
    /\ UNCHANGED exceptHandler

\* verifyUserToken trusting any bearer token.
VerifiedUnchecked(token, answered) == "u1"

\* verifyUserToken after supabase.auth.getUser(token): the user's id, or null
\* when the service reports an error or no user, or when the call throws.
Verified(token, answered) == IF answered THEN UserOf(token) ELSE NoUser

\* The auth service answers (or fails): with a user the handler goes on to
\* query the user's key, else it falls back to the environment.
TokenChecked(answered) ==
    /\ handler.pc = "verifying"
    /\ LET userId == Verified(handler.authorization[2], answered)
           h == [handler EXCEPT !.userId = userId]
       IN  handler' = IF userId # NoUser THEN [h EXCEPT !.pc = "querying"]
                      ELSE Resolved(h, NoKey)
    /\ UNCHANGED exceptHandler

\* getUserApiKey: null on an error or no row, else decrypt(row), which is null
\* without the secret or for a row that does not decrypt.
UserKeyOf(h, answered) ==
    IF answered /\ h.row = "saved" /\ h.env.secret THEN UserKey ELSE NoKey

\* The query of user_api_keys answers (or fails).
KeyQueried(answered) ==
    /\ handler.pc = "querying"
    /\ handler' = Resolved(handler, UserKeyOf(handler, answered))
    /\ UNCHANGED exceptHandler

KeyedRequests ==
    {Request(m, hb, pr, p, t) :
        m \in {"POST", "GET"}, hb \in BOOLEAN, pr \in Providers \cup {"other"},
        p \in {<<>>, <<"p">>}, t \in {<<"t">>}}

InitCredential ==
    /\ PageInit
    /\ reader = Idle
    /\ handler \in {NewKeyedHandler(c, req, env, row) :
                        c \in ClientStates, req \in KeyedRequests,
                        env \in Deployments, row \in UserRows}

NextCredential ==
    \/ ClientSends
    \/ \E header \in ForeignHeaders : ForeignSends(header)
    \/ KeyedHandlerCall
    \/ \E answered \in BOOLEAN : TokenChecked(answered)
    \/ \E answered \in BOOLEAN : KeyQueried(answered)

SpecCredential == InitCredential /\ [][NextCredential]_vars

\* ------------------------------------------------------------------ cleanOutput
\* cleanOutput (app.js 1006-1030), which the preview of a result is passed
\* through, on texts of letters, blanks and line breaks.
MaxTextLen == 6

TextChars == {"a", " ", "\n"}
OutputTexts == UNION {[1..n -> TextChars] : n \in 0..MaxTextLen}

\* text.split('\n')
RECURSIVE Split(_)
Split(text) ==
    IF \A k \in 1..Len(text) : text[k] # "\n" THEN <<text>>
    ELSE LET k == CHOOSE j \in 1..Len(text) :
                      text[j] = "\n" /\ \A m \in 1..(j - 1) : text[m] # "\n"
         IN  <<SubSeq(text, 1, k - 1)>> \o Split(SubSeq(text, k + 1, Len(text)))

\* lines.join('\n')
RECURSIVE Join(_)
Join(lines) ==
    IF Len(lines) = 1 THEN lines[1]
    ELSE lines[1] \o <<"\n">> \o Join(Tail(lines))

\* line.match(/^\s*/)[0]
LeadingWhitespace(line) == SubSeq(line, 1, Len(line) - Len(TrimLeft(line)))

\* line.startsWith(prefix)
StartsWith(line, prefix) ==
    Len(line) >= Len(prefix) /\ SubSeq(line, 1, Len(prefix)) = prefix

\* lines.map(line => line.startsWith(w) ? line.slice(w.length) : line)
WithoutPrefix(lines, w) ==
    [k \in 1..Len(lines) |->
        IF StartsWith(lines[k], w) THEN SubSeq(lines[k], Len(w) + 1, Len(lines[k]))
        ELSE lines[k]]

\* The leading white space of the first line of lines that is not blank, or
\* none when every line is blank.
FirstIndentation(lines) ==
    LET filled == {i \in 1..Len(lines) : Len(Trim(lines[i])) > 0}
    IN  IF filled = {} THEN <<>>
        ELSE LeadingWhitespace(lines[CHOOSE i \in filled : \A j \in filled : i <= j])

cleanOutput(text) ==
    LET cleaned == Trim(text)
        lines == Split(cleaned)
    IN  IF \A i \in 1..Len(lines) : Len(Trim(lines[i])) = 0 THEN cleaned
        ELSE Trim(Join(WithoutPrefix(lines, FirstIndentation(lines))))

\* A call of cleanOutput that has not run yet.
NewCleaner(text) == [pc |-> "called", text |-> text, result |-> <<>>, again |-> <<>>]

exceptCleaner == <<pageVars, configVars, reader, handler, twin, promptVars>>

\* The call returns.
CleanOutput ==
    /\ cleaner.pc = "called"
    /\ cleaner' = [cleaner EXCEPT !.pc = "returned", !.result = cleanOutput(cleaner.text)]
    /\ UNCHANGED exceptCleaner

\* What it returned is cleaned once more.
CleanAgain ==
    /\ cleaner.pc = "returned"
    /\ cleaner' = [cleaner EXCEPT !.pc = "again", !.again = cleanOutput(cleaner.result)]
    /\ UNCHANGED exceptCleaner

InitClean ==
    /\ BatchInit
    /\ PromptsInit(FALSE)
    /\ reader = Idle
    /\ handler = Idle
    /\ twin = Idle
    /\ cleaner \in {NewCleaner(text) : text \in OutputTexts}

NextClean == CleanOutput \/ CleanAgain

SpecClean == InitClean /\ [][NextClean]_vars

\* ------------------------------------------------------------------ the key endpoint
\* One call of the handler that lists, saves and deletes the API keys of a
\* user (src/unnamed/part_003), from the request to the response.

\* if (apiKey.length < 10)
MinKeyLength == 10

Unauthorized == <<"Unauthorized. Please login first.">>
DbNotConfigured == <<"Database not configured">>
MissingProviderOrKey == <<"Missing provider or apiKey">>
MissingProvider == <<"Missing provider">>
InvalidKeyProvider == <<"Invalid provider. Must be: openai, anthropic, or gemini">>
KeyTooShort == <<"API key appears to be invalid (too short)">>
SecretNotSet == <<"API_KEY_ENCRYPTION_SECRET must be a 64-character hex string (32 bytes)">>
DbError == <<"database error">>
KeysListed == <<"keys">>
KeySaved == <<"API key saved successfully">>
KeyDeleted == <<"API key deleted">>

\* A member of the body that is missing or empty.
NoProvider == ""

\* Keys of nine and of ten characters, and none.
KeyOfLength(n) == [k \in 1..n |-> "k"]
ApiKeys == {<<>>, KeyOfLength(MinKeyLength - 1), KeyOfLength(MinKeyLength)}

\* A request: its method, its Authorization header, whether req.body is an
\* object, and the members provider and apiKey of the body.
KeysRequests ==
    [method : {"GET", "POST", "DELETE", "OPTIONS", "PUT"},
     authorization : {NoHeader, <<"Bearer ", GoodToken>>, <<"Bearer ", BadToken>>,
                      <<"Basic ", GoodToken>>},
     hasBody : BOOLEAN,
     provider : {NoProvider, "openai", "other"},
     apiKey : ApiKeys]

\* A call of the handler that has not run yet, in a deployment env, the user
\* of the good token having keys saved for the providers rows. dbReads and
\* dbWrites are not in the code: they count the select calls and the upsert
\* and delete calls on user_api_keys; rows0 keeps the rows of the start.
NewKeysHandler(req, env, rows) ==
    [pc |-> "start", req |-> req, env |-> env, rows |-> rows, rows0 |-> rows,
     userId |-> NoUser, statusCode |-> 0, json |-> <<>>, ended |-> FALSE,
     dbReads |-> 0, dbWrites |-> 0]

\* The branch of the method for a verified user, up to its return or to its
\* database call; an exception is answered 500 by the catch block.
KeysDispatch(h) ==
    LET req == h.req IN
    CASE req.method = "GET" ->
            [h EXCEPT !.pc = "querying", !.dbReads = h.dbReads + 1]
      [] req.method = "POST" ->
            IF ~req.hasBody THEN Refused(h, 500, NoBody)
            ELSE IF req.provider = NoProvider \/ req.apiKey = <<>>
                 THEN Refused(h, 400, MissingProviderOrKey)
            ELSE IF req.provider \notin Providers
                 THEN Refused(h, 400, InvalidKeyProvider)
            ELSE IF Len(req.apiKey) < MinKeyLength THEN Refused(h, 400, KeyTooShort)
            ELSE IF ~h.env.secret THEN Refused(h, 500, SecretNotSet)
            ELSE [h EXCEPT !.pc = "writing", !.dbWrites = h.dbWrites + 1]
      [] req.method = "DELETE" ->
            IF ~req.hasBody THEN Refused(h, 500, NoBody)
            ELSE IF req.provider = NoProvider THEN Refused(h, 400, MissingProvider)
            ELSE [h EXCEPT !.pc = "writing", !.dbWrites = h.dbWrites + 1]
      [] OTHER -> Refused(h, 405, MethodNotAllowed)

\* The handler runs to its first return or to supabase.auth.getUser.
KeysHandlerCall ==
    /\ handler.pc = "start"
    /\ handler' =
         IF handler.req.method = "OPTIONS"
         THEN [handler EXCEPT !.pc = "returned", !.statusCode = 200, !.ended = TRUE]
         ELSE IF ~handler.env.supabase THEN Refused(handler, 500, DbNotConfigured)
         ELSE IF ~IsBearer(handler.req.authorization)
              THEN Refused(handler, 401, Unauthorized)
         ELSE [handler EXCEPT !.pc = "verifying"]
    /\ UNCHANGED exceptHandler

\* supabase.auth.getUser answers with the user of the token, or with an
\* error or no user.
KeysTokenChecked(answered) ==
    /\ handler.pc = "verifying"
    /\ LET userId == IF answered THEN UserOf(handler.req.authorization[2]) ELSE NoUser
           h == [handler EXCEPT !.userId = userId]
       IN  handler' = IF userId = NoUser THEN Refused(h, 401, Unauthorized)
                      ELSE KeysDispatch(h)
    /\ UNCHANGED exceptHandler

\* The database answers the select, the upsert or the delete, with or without
\* an error.
KeysDbAnswers(ok) ==
    /\ handler.pc \in {"querying", "writing"}
    /\ handler' =
         IF ~ok THEN Refused(handler, 500, DbError)
         ELSE IF handler.pc = "querying" THEN Refused(handler, 200, KeysListed)
         ELSE IF handler.req.method = "POST"
              THEN Refused([handler EXCEPT !.rows = handler.rows \cup {handler.req.provider}],
                           200, KeySaved)
         ELSE Refused([handler EXCEPT !.rows = handler.rows \ {handler.req.provider}],
                      200, KeyDeleted)
    /\ UNCHANGED exceptHandler

InitKeys ==
    /\ PageInit
    /\ reader = Idle
    /\ handler \in {NewKeysHandler(req, env, rows) :
                        req \in KeysRequests,
                        env \in [supabase : BOOLEAN, secret : BOOLEAN],
                        rows \in {{}, {"openai"}}}

NextKeys ==
    \/ KeysHandlerCall
    \/ \E answered \in BOOLEAN : KeysTokenChecked(answered)
    \/ \E ok \in BOOLEAN : KeysDbAnswers(ok)

SpecKeys == InitKeys /\ [][NextKeys]_vars

\* ------------------------------------------------------------------ C1
\* C1: in a batch of two or more files in which a job ended Failed, every other
\* job whose extraction and response stream succeeded is Complete with its own
\* full output, and once all jobs have ended handleParse has resolved.
C1_Isolation ==
    \A b \in BatchesStarted :
        (/\ Len(runners[b]) >= 2
         /\ \E i \in 1..Len(runners[b]) :
                runners[b][i].fate = "failed" /\ runners[b][i].pc = "done")
        => /\ \A j \in 1..Len(runners[b]) :
                 runners[b][j].fate = "ok"
                 => /\ runners[b][j].pc = "done"
                    /\ (j \in Records /\ currentResults[j].batch = b)
                       => /\ currentResults[j].status = "complete"
                          /\ currentResults[j].output = Concat(runners[b][j].received)
           /\ (\A j \in 1..Len(runners[b]) : Ended(b, j))
              => batches[b].status = "resolved"

\* ------------------------------------------------------------------ C2
\* The table holds the records of one batch, in the order of its input files.
FilenamesMatchInput ==
    \A i \in Records :
        LET b == currentResults[i].batch IN
        /\ b = currentResults[1].batch
        /\ Len(currentResults) = Len(batches[b].files)
        /\ currentResults[i].filename = batches[b].files[i]

\* A step of runner i of batch b.
RunnerMoved(b, i) ==
    /\ b \in 1..Len(runners)
    /\ i \in 1..Len(runners[b])
    /\ runners'[b][i] # runners[b][i]

\* A step of a runner leaves the table as long as it was, changes no filename
\* and changes no record at an index other than the runner's own.
RunnerWritesOwnIndex ==
    \A b \in BatchIds, i \in FileNames :
        RunnerMoved(b, i)
        => /\ Len(currentResults') = Len(currentResults)
           /\ \A k \in Records :
                 /\ currentResults'[k].filename = currentResults[k].filename
                 /\ k # i => currentResults'[k] = currentResults[k]

\* C2: from batch start until the table is replaced, the record at index i
\* carries the filename of input file i of the batch; no completion order
\* reorders the records, and a runner stores its result at its own index only.
C2_OrderPreserved == []FilenamesMatchInput /\ [][RunnerWritesOwnIndex]_vars

\* Two jobs of one batch, the one at the higher index finished first, with the
\* output of its own response.
C2_Witness ==
    /\ Len(currentResults) = 2
    /\ currentResults[2].status = "complete"
    /\ currentResults[2].output = <<"a">>
    /\ currentResults[1].status = "processing"
    /\ currentResults[1].output = <<>>

\* ------------------------------------------------------------------ C3
\* A record keeps its identity while the table is not rebuilt or cleared.
SameRecord(i) ==
    /\ i \in Records
    /\ i <= Len(currentResults')
    /\ currentResults'[i].batch = currentResults[i].batch

\* C3: a job moves Pending -> Extracting -> Calling -> {Complete | Failed} only:
\* it never moves to an earlier state, and once Complete or Failed its status
\* never changes again.
C3_OneDirectional ==
    [][\A i \in FileNames :
          SameRecord(i)
          => /\ PhaseRank(Phase(currentResults'[i])) >= PhaseRank(Phase(currentResults[i]))
             /\ Terminal(currentResults[i])
                => currentResults'[i].status = currentResults[i].status]_vars

\* ------------------------------------------------------------------ C4
\* C4: the promise of a runner is never rejected, so Promise.all in handleParse
\* never rejects either.
C4_RunnerNeverRaises ==
    \A b \in BatchesStarted :
        /\ batches[b].status # "rejected"
        /\ \A i \in 1..Len(runners[b]) : runners[b][i].pc # "rejected"

\* ------------------------------------------------------------------ C5
\* When handleParse has resolved, every runner of its batch has finished and
\* every job of the batch still in the table is Complete or Failed.
ResolvedMeansAllTerminal ==
    \A b \in BatchesStarted :
        batches[b].status = "resolved"
        => /\ \A i \in 1..Len(runners[b]) : runners[b][i].pc = "done"
           /\ \A i \in Records :
                 currentResults[i].batch = b => Terminal(currentResults[i])

\* The step in which handleParse resolves is the step in which the last runner
\* of its batch finishes, and it leaves the parse button enabled.
ResolveStep ==
    \A b \in BatchesStarted :
        (batches[b].status = "awaiting" /\ batches'[b].status = "resolved")
        => /\ parseBtnDisabled' = FALSE
           /\ \E i \in 1..Len(runners[b]) :
                 runners[b][i].pc # "done" /\ runners'[b][i].pc = "done"
           /\ \A i \in 1..Len(runners[b]) : runners'[b][i].pc = "done"

\* C5: handleParse resolves, and restores the parse button, only after every
\* job of the batch is Complete or Failed, never while one is still Pending,
\* Extracting or Calling.
C5_ResolvesAfterAllTerminal == []ResolvedMeansAllTerminal /\ [][ResolveStep]_vars

\* handleParse has resolved for a batch of two jobs, one Complete, one Failed.
C5_Witness ==
    \E b \in BatchesStarted :
        /\ batches[b].status = "resolved"
        /\ Len(currentResults) = 2
        /\ currentResults[1].batch = b
        /\ currentResults[1].status = "complete"
        /\ currentResults[2].status = "error"

\* ------------------------------------------------------------------ C6
ParseWarnings == {ToastNoFiles, ToastNoPrompt}

EmptyInput == Len(uploadedFiles) = 0 \/ Trim(promptInput) = <<>>

\* C6: with no uploaded file or a blank prompt, no step builds a batch or
\* starts a runner, and the step in which handleParse shows its warning leaves
\* the table, the runners (so every request counter) and the shell unchanged.
C6_EmptyInputRejected ==
    [][EmptyInput
       => /\ Len(batches') = Len(batches)
          /\ Len(runners') = Len(runners)
          /\ (toast' # toast /\ toast' \in ParseWarnings)
             => /\ toast' = (IF Len(uploadedFiles) = 0 THEN ToastNoFiles
                             ELSE ToastNoPrompt)
                /\ UNCHANGED <<uploadedFiles, promptInput, parseBtnDisabled,
                               currentResults, batches, runners>>]_vars

\* handleParse was called with files and a blank prompt and has shown its
\* warning, the results of the earlier batch still in the table.
C6_Witness ==
    /\ toast = ToastNoPrompt
    /\ Len(uploadedFiles) > 0
    /\ Trim(promptInput) = <<>>
    /\ Len(currentResults) > 0

\* ------------------------------------------------------------------ C7
\* C7: the output of a Complete job is the concatenation, in arrival order, of
\* the payloads of the chunk records its response delivered.
C7_OutputIsConcatenation ==
    \A i \in Records :
        currentResults[i].status = "complete"
        => currentResults[i].output = Concat(OwnRunner(i).received)

\* ------------------------------------------------------------------ C8
\* C8: a job that failed in Calling is Failed with the error text in its status
\* text, and its output is what had accumulated when it failed.
C8_PartialOutputKept ==
    \A i \in Records :
        (OwnRunner(i).fate = "failed" /\ OwnRunner(i).extraction = "ok")
        => /\ currentResults[i].status = "error"
           /\ currentResults[i].statusText = ErrorText(OwnRunner(i).error)
           /\ currentResults[i].output = OwnRunner(i).fullResult

\* ------------------------------------------------------------------ C9
\* C9: a job is in Calling only after its extraction returned without error; a
\* job whose extraction failed is Failed with the extractor's message and has
\* made no backend request.
C9_CallingAfterExtraction ==
    \A i \in Records :
        /\ Phase(currentResults[i]) = "Calling" => OwnRunner(i).extraction = "ok"
        /\ OwnRunner(i).extraction = "failed"
           => /\ Phase(currentResults[i]) = "Failed"
              /\ currentResults[i].statusText = ErrorText(OwnRunner(i).error)
              /\ OwnRunner(i).reqs = 0

\* ------------------------------------------------------------------ C10
\* C10: while a batch is in flight the parse button is disabled, so no second
\* batch is started before the first has resolved.
C10_TriggerDisabledInFlight ==
    /\ (\E b \in BatchesStarted : InFlight(b)) => parseBtnDisabled
    /\ \A b, c \in BatchesStarted : InFlight(b) /\ InFlight(c) => b = c

\* ------------------------------------------------------------------ C11
\* Status, status text or output of record i differ after the step.
Written(i) ==
    \/ currentResults'[i].status # currentResults[i].status
    \/ currentResults'[i].statusText # currentResults[i].statusText
    \/ currentResults'[i].output # currentResults[i].output

\* C11: every write to the status, status text or output of a record is made
\* by the runner launched for that index by the batch that created the record:
\* a step that changes one of the three on a record that stays in the table is
\* a step of that runner.
C11_ExclusiveWriteOwnership ==
    [][\A i \in FileNames :
          (SameRecord(i) /\ Written(i)) => RunnerMoved(currentResults[i].batch, i)]_vars

\* ------------------------------------------------------------------ C12
\* C12: from batch start until every job of the batch is terminal (handleParse
\* is awaiting Promise.all), the table holds one record per input file of the
\* batch, with the filenames of the batch, whatever the user does meanwhile.
C12_JobSetFixed ==
    \A b \in BatchesStarted :
        InFlight(b)
        => /\ Len(currentResults) = Len(batches[b].files)
           /\ \A k \in Records : currentResults[k].filename = batches[b].files[k]

\* ------------------------------------------------------------------ C13
\* C13: every request of a batch carries the provider and the model name that
\* were selected when the batch started, whatever is selected meanwhile.
C13_ProviderFixedPerBatch ==
    \A b \in BatchesStarted : \A i \in 1..Len(runners[b]) :
        runners[b][i].reqs > 0
        => /\ runners[b][i].request.provider = batches[b].provider
           /\ runners[b][i].request.modelName = batches[b].modelName

\* ------------------------------------------------------------------ C14
\* Every request made so far carries the prompt of its batch.
RequestsCarryBatchPrompt ==
    \A b \in BatchesStarted : \A i \in 1..Len(runners[b]) :
        runners[b][i].reqs > 0 => runners[b][i].request.prompt = batches[b].prompt

\* The prompt of a batch is the trimmed prompt input of the step that starts the
\* batch, and no later step changes it.
BatchPromptFixed ==
    \A b \in 1..Len(batches') :
        batches'[b].prompt = IF b <= Len(batches) THEN batches[b].prompt
                             ELSE Trim(promptInput)

\* C14: every backend request of a batch carries the same prompt, the trimmed
\* value of the prompt input at batch start, whatever edits are made to the
\* prompt input while the batch runs.
C14_OnePromptPerBatch == []RequestsCarryBatchPrompt /\ [][BatchPromptFixed]_vars

\* A batch of two jobs has sent both requests with the prompt "p", one of them
\* failed already, and the prompt input holds a blank text by now.
C14_Witness ==
    \E b \in BatchesStarted :
        /\ Len(runners[b]) = 2
        /\ runners[b][1].reqs = 1 /\ runners[b][1].pc = "done"
        /\ runners[b][2].reqs = 1 /\ runners[b][2].pc = "reading"
        /\ runners[b][1].request.prompt = <<"p">>
        /\ runners[b][2].request.prompt = <<"p">>
        /\ Trim(promptInput) = <<>>

\* ------------------------------------------------------------------ C15
\* The loop of the same kind after one read that delivers, in one piece, all
\* the bytes the loop rd has read.
OneRead(rd) == ReadPass(NewReader(rd.kind, rd.body), SubSeq(rd.body, 1, rd.pos))

\* C15: however the bytes read so far were cut into reads (inside a character,
\* inside a record, or several records in one read), the loop has yielded the
\* records, accumulated the result and raised the error that one read of the
\* same bytes yields, in the client loop and in the three backend loops.
C15_ChunkBoundaryIndependence ==
    reader.pc # "idle"
    => /\ reader.out = OneRead(reader).out
       /\ reader.fullResult = OneRead(reader).fullResult
       /\ reader.thrown = OneRead(reader).thrown
       /\ (reader.pc = "thrown") = (OneRead(reader).pc = "thrown")

\* The client loop has yielded one record, and the last read ended after the
\* first byte of a three-byte character inside the next record.
C15_Witness ==
    /\ reader.pc = "reading"
    /\ reader.kind = "client"
    /\ reader.pending = <<"e2">>
    /\ reader.buffer = <<DataPrefix, "{", "chunk">>
    /\ reader.out = <<Line("chunk", <<"a">>)>>

\* ------------------------------------------------------------------ C16
\* Data lines whose payload is not valid JSON.
NotJSONLines == {l \in ClientLines : ParseLine(l).kind \in {"malformed", "truncated"}}

\* C16: a response that holds a data line whose payload is not valid JSON and
\* then a done record takes the job to Complete.
C16_MalformedRecordSkipped ==
    (/\ reader.pc \in {"ended", "thrown"}
     /\ reader.kind = "client"
     /\ \E l \in NotJSONLines : reader.body = Encode(JoinLines(<<l, DoneLine>>, TRUE)))
    => JobStatus(reader) = "complete"

\* ------------------------------------------------------------------ C17
\* The complete lines of the body of rd, as the client loop parses them.
LinesOfBody(rd) ==
    LET parts == SplitLines(DecodeBytes(<<>>, rd.body).text) IN
    [k \in 1..(Len(parts) - 1) |-> ParseLine(parts[k])]

\* The client loop reaches line k of ls: no line before it throws.
Reaches(ls, k) ==
    ~ProcessLines(SubSeq(ls, 1, k - 1), LoopState(<<>>, FALSE, FALSE, <<>>), TRUE).threw

\* C17: when the client loop has parsed a record with an error field, whatever
\* its text, the call ends with that text as its error (the job is Failed) and
\* the result holds the chunks before the record only.
C17_ErrorRecordEndsStream ==
    (reader.pc \in {"ended", "thrown"} /\ reader.kind = "client")
    => \A k \in 1..Len(LinesOfBody(reader)) :
           (LinesOfBody(reader)[k].kind = "error" /\ Reaches(LinesOfBody(reader), k))
           => /\ JobStatus(reader) = "error"
              /\ reader.thrown = LinesOfBody(reader)[k].val
              /\ reader.fullResult =
                    Concat(ChunkPayloads(SubSeq(LinesOfBody(reader), 1, k - 1)))

\* ------------------------------------------------------------------ C18
\* The request passes the checks of the handler.
Valid(req) ==
    /\ req.method = "POST"
    /\ req.hasBody
    /\ req.prompt # <<>> /\ req.text # <<>>
    /\ req.provider \in Providers

\* The records written so far are chunk records, but for the last one once the
\* response has ended, which is a done or an error record.
EventStreamShape ==
    (handler.pc # "idle" /\ Valid(handler.req))
    => /\ \A k \in 1..(Len(handler.written) - 1) : handler.written[k].kind = "chunk"
       /\ handler.ended
          => /\ handler.written # <<>>
             /\ handler.written[Len(handler.written)].kind \in {"done", "error"}
       /\ ~handler.ended
          => \A k \in 1..Len(handler.written) : handler.written[k].kind = "chunk"

\* Nothing is written to a response that has ended.
NothingAfterEnd ==
    (handler.pc # "idle" /\ handler.ended) => handler' = handler

\* C18: for every request that passes the checks of the handler, the event
\* stream is zero or more chunk records and then exactly one done or error
\* record, nothing after it, for each provider, whether the provider's response
\* ends or fails.
C18_OneTerminalRecord == []EventStreamShape /\ [][NothingAfterEnd]_vars

\* The provider's response broke after a chunk was forwarded.
C18_Witness ==
    /\ handler.pc = "returned"
    /\ handler.req.provider = "gemini"
    /\ handler.written = <<Line("chunk", <<"a">>), Line("error", FetchFailed)>>

\* ------------------------------------------------------------------ C19
\* C19: when the provider rejects the call before any event is read (response
\* not OK, fetch failed, key missing), the handler writes one error record and
\* nothing else, and the job that sent the request ends Failed with its text.
C19_UpstreamRejectionFailsJob ==
    (handler.pc = "returned" /\ handler.upstream \in {"rejected", "nokey"})
    => /\ Len(handler.written) = 1
       /\ handler.written[1].kind = "error"
       /\ JobStatus(ClientOf(handler)) = "error"
       /\ ClientOf(handler).thrown = handler.written[1].val

\* ------------------------------------------------------------------ C20
\* C20: a request that is no POST, or whose prompt or text is missing or empty,
\* or that names no supported provider, is answered with a 4xx status, and no
\* call to a provider is made for it.
C20_InvalidRequestRefused ==
    (handler.pc = "returned" /\ ~Valid(handler.req))
    => /\ handler.statusCode \in 400..499
       /\ handler.calls = 0

\* ------------------------------------------------------------------ C21
\* Every job has made at most one extraction call and at most one request.
JobsTryOnce ==
    \A b \in BatchesStarted : \A i \in 1..Len(runners[b]) :
        /\ runners[b][i].extractions <= 1
        /\ runners[b][i].reqs <= 1

\* The handler call has passed its first step.
HandlerRan == handler.pc \notin {"idle", "start"}

IsPrefix(s, t) == Len(s) <= Len(t) /\ SubSeq(t, 1, Len(s)) = s

\* C23: the output of a job only grows, each value having the one before as a
\* prefix, and once the job is Complete or Failed its output never changes.
C23_OutputOnlyGrows ==
    [][\A i \in FileNames :
          SameRecord(i)
          => /\ IsPrefix(currentResults[i].output, currentResults'[i].output)
             /\ Terminal(currentResults[i])
                => currentResults'[i].output = currentResults[i].output]_vars

\* ------------------------------------------------------------------ C24
\* C24: whenever the runners are suspended, the container shows one element per
\* record of the table, with the record's status, file name and status text,
\* and the output of every Complete record: every write of a runner has been
\* followed by updateResultsDisplay.
C24_WritesAreRendered ==
    /\ Len(resultsContainer) = Len(currentResults)
    /\ \A k \in Records :
          /\ resultsContainer[k].class = currentResults[k].status
          /\ resultsContainer[k].filename = currentResults[k].filename
          /\ resultsContainer[k].statusText = currentResults[k].statusText
          /\ currentResults[k].status = "complete"
             => resultsContainer[k].preview = <<currentResults[k].output>>

\* Two jobs have ended, one Complete with a chunk received, one Failed, and
\* both final states are on display.
C24_Witness ==
    /\ Len(currentResults) = 2
    /\ \E k \in Records :
          /\ currentResults[k].status = "complete"
          /\ currentResults[k].output # <<>>
          /\ resultsContainer[k].preview = <<currentResults[k].output>>
    /\ \E k \in Records :
          /\ currentResults[k].status = "error"
          /\ resultsContainer[k].class = "error"

\* ------------------------------------------------------------------ C29
\* C29: there is no cancellation and no timeout. A job in Calling whose own
\* runner does not move (its response delivers nothing and does not close)
\* stays in Calling as long as its record is in the table, whatever else
\* happens, and handleParse has not resolved while a runner of its batch is
\* suspended.
C29_HungJobStaysCalling ==
    /\ [](\A b \in BatchesStarted :
            (\E i \in 1..Len(runners[b]) : runners[b][i].pc \in {"fetching", "reading"})
            => batches[b].status # "resolved")
    /\ [][\A i \in FileNames :
            (/\ i \in Records
             /\ Phase(currentResults[i]) = "Calling"
             /\ OwnRunner(i).pc \in {"fetching", "reading"}
             /\ runners'[currentResults[i].batch][i] = OwnRunner(i)
             /\ SameRecord(i))
            => Phase(currentResults'[i]) = "Calling"]_vars

\* ------------------------------------------------------------------ C28
\* Every job of batch b is Complete or Failed by its own runner's doing.
JobsEnded(b) ==
    \A i \in 1..Len(runners[b]) : runners[b][i].fate \in {"ok", "failed"}

\* C28: when no extraction and no response hangs, a batch in flight leads to a
\* state where all its jobs are Complete or Failed, handleParse has resolved
\* and the parse button is enabled.
C28_BatchTerminates ==
    \A b \in BatchIds :
        (b \in BatchesStarted /\ InFlight(b))
        ~> (/\ b \in BatchesStarted
            /\ batches[b].status = "resolved"
            /\ JobsEnded(b)
            /\ ~parseBtnDisabled)

\* ------------------------------------------------------------------ C25
\* Every file held passed the PDF filter, no two files held bear the same
\* name, and the list is in the order of localeCompare on the names.
FileListWellFormed ==
    /\ \A k \in 1..Len(uploadedFiles) : IsPdf(uploadedFiles[k])
    /\ \A j, k \in 1..Len(uploadedFiles) :
          /\ j # k => uploadedFiles[j].name # uploadedFiles[k].name
          /\ j < k => LocaleCompare(uploadedFiles[j].name, uploadedFiles[k].name) <= 0

\* A step that removes nothing keeps every entry it found: a file whose name
\* is present does not replace the entry.
ExistingKept ==
    Len(uploadedFiles') >= Len(uploadedFiles)
    => \A k \in 1..Len(uploadedFiles) :
          \E j \in 1..Len(uploadedFiles') : uploadedFiles'[j] = uploadedFiles[k]

\* C25: after any sequence of addFiles and removeFileByIndex calls the list
\* holds PDF files only, no two of the same name (a file whose name is present
\* is ignored and the entry kept), sorted by name; so a batch built from it has
\* unique file names.
C25_FileListWellFormed ==
    []FileListWellFormed /\ [][ExistingKept]_vars

\* Three files are held: one that is a PDF by its name only, one by its type
\* only, in the order of their names.
C25_Witness ==
    /\ Len(uploadedFiles) = 3
    /\ \E k \in 1..3 : uploadedFiles[k].type # PdfType
    /\ \E k \in 1..3 : ~EndsWith(uploadedFiles[k].name, PdfSuffix)
    /\ uploadedFiles[3].version = 2

\* ------------------------------------------------------------------ C26
\* Call k gets the status st in this step.
Settles(k, st) ==
    /\ k \in 1..Len(promptCalls')
    /\ promptCalls'[k].status = st
    /\ (k > Len(promptCalls) \/ promptCalls[k].status = "pending")

SaveOps == {"save", "insert", "update"}
DeleteOps == {"delete", "remove"}

\* The entries of saved that bear the name.
Named(saved, name) == {j \in 1..Len(saved) : saved[j].name = name}

\* C26: in the step in which a save of (name, text) succeeds, to localStorage
\* or to the remote table, savedPrompts comes to hold exactly one entry of that
\* name, with that text, and the prompt input holds that text (the handler
\* loads the name it saved).
C26_SaveOverwritesByName ==
    [][\A k \in 1..MaxPromptCalls :
          (Settles(k, "ok") /\ promptCalls'[k].op \in SaveOps)
          => LET c == promptCalls'[k] IN
             /\ Cardinality(Named(savedPrompts', c.name)) = 1
             /\ \A j \in Named(savedPrompts', c.name) : savedPrompts'[j].text = c.text
             /\ promptInput' = c.text]_vars

\* ------------------------------------------------------------------ C27
\* The saved prompts and their store.
PromptStore == <<savedPrompts, storedPrompts, promptsTable>>

TokenVerifies(h) ==
    /\ h.env.supabase
    /\ IsBearer(h.authorization)
    /\ UserOf(h.authorization[2]) # NoUser

\* The handler has resolved the key of a request that passes its checks.
KeyResolved(h) ==
    /\ h.pc \in {"fetching", "returned"}
    /\ h.req.method = "POST" /\ h.req.hasBody
    /\ h.req.prompt # <<>> /\ h.req.text # <<>>

\* The handler goes on to the provider with the default key of the environment.
ServedWithEnvKey(h) ==
    /\ h.pc = "fetching"
    /\ ~h.isUserKey
    /\ h.sent = EnvKeyOf(h.req.provider)

\* The page attaches the header exactly when getAuthToken gave a token, and
\* there is no token without a client, a logged-in user and a session token.
HeaderOnlyWithToken(h) ==
    (h.pc # "unsent" /\ h.authorization \notin ForeignHeaders)
    => /\ h.authorization = AuthorizationOf(h.client)
       /\ h.authorization # NoHeader
          <=> (/\ h.client.supabaseClient
               /\ h.client.currentUser
               /\ h.client.accessToken # NoToken)

\* The user's key is used only for a token that verifies and a saved key, and
\* no request is refused for its credential.
UserKeyOnlyWhenVerified(h) ==
    /\ h.isUserKey => (TokenVerifies(h) /\ h.row = "saved" /\ h.sent \in {NoKey, UserKey})
    /\ h.statusCode \notin {401, 403}

Response(h) ==
    [statusCode |-> h.statusCode, json |-> h.json, written |-> h.written,
     ended |-> h.ended]

\* Both calls have seen the same of the provider: both made their upstream
\* call or neither did (the events are shared).
SameUpstream == handler.calls = twin.calls /\ handler.reads = twin.reads

\* C30: two calls of the handler that differ in the value of the key only and
\* see the same upstream responses send the same status, the same records and
\* the same error texts to the client.
C30_KeyNeverSent ==
    SameUpstream => Response(handler) = Response(twin)

\* Both calls sent their own key to the provider, the provider refused both,
\* and each has answered the client with the error record of its catch block.
C30_Witness ==
    /\ handler.sent # NoKey /\ twin.sent # NoKey
    /\ handler.sent # twin.sent
    /\ handler.pc = "returned" /\ twin.pc = "returned"
    /\ handler.upstream = "rejected"
    /\ Len(handler.written) = 1
    /\ handler.written[1].kind = "error"

\* ------------------------------------------------------------------ C31
\* The position of the last line feed among bytes, 0 when there is none.
LastBreak(bytes) ==
    IF \E k \in 1..Len(bytes) : bytes[k] = NL
    THEN CHOOSE k \in 1..Len(bytes) :
             bytes[k] = NL /\ \A j \in (k + 1)..Len(bytes) : bytes[j] # NL
    ELSE 0

\* The bytes the loop rd has read, up to the last line feed among them.
EndedLines(rd) ==
    LET got == SubSeq(rd.body, 1, rd.pos) IN SubSeq(got, 1, LastBreak(got))

\* The loop of the same kind after it has read the ended lines of rd only.
WithoutFragment(rd) == ReadPass(NewReader(rd.kind, rd.body), EndedLines(rd))

ErrorSurfaces(rd) ==
    ProcessLines(LinesOfBody(rd), LoopState(<<>>, FALSE, FALSE, <<>>), TRUE).threw

\* C32: a call of the client loop is over only when the body is exhausted or
\* an error has surfaced; it makes the job Complete exactly when no line of
\* the body surfaces an error, with or without a done record, and the result
\* then holds the chunks of every complete line, those after a done record
\* included.
C32_ExhaustionIsDone ==
    (reader.kind = "client" /\ reader.pc \in {"ended", "thrown"})
    => /\ (JobStatus(reader) = "complete") = ~ErrorSurfaces(reader)
       /\ JobStatus(reader) = "complete"
          => /\ reader.pos = Len(reader.body)
             /\ reader.fullResult = Concat(ChunkPayloads(LinesOfBody(reader)))

\* The client loop has ended on a body that holds a done record and then a
\* chunk record: the chunk after the done record is in the result.
C32_Witness ==
    /\ reader.pc = "ended"
    /\ reader.kind = "client"
    /\ reader.body = Encode(JoinLines(<<DoneLine, ChunkLine(<<"a">>)>>, TRUE))
    /\ reader.fullResult = <<"a">>
    /\ JobStatus(reader) = "complete"

\* The client loop has ended on a body without any done record.
C32_WitnessNoDone ==
    /\ reader.pc = "ended"
    /\ reader.kind = "client"
    /\ reader.body = Encode(JoinLines(<<ChunkLine(<<"a">>)>>, TRUE))
    /\ JobStatus(reader) = "complete"

\* ------------------------------------------------------------------ C33
\* The step empties a table that held records.
TableEmptied == Len(currentResults) > 0 /\ Len(currentResults') = 0

\* Runner i of batch b makes a step in which it writes to its record, or
\* handles an exception, while the table holds no record at its index (every
\* step of a runner but the arrival of the response and a read that delivers
\* no chunk writes to the record).
WritesWithoutRecord(b, i) ==
    /\ RunnerMoved(b, i)
    /\ ~HasRec(i)
    /\ runners'[b][i].pc # "reading"

NoJobPending == \A i \in Records : Phase(currentResults[i]) # "Pending"

\* The step starts a batch.
BatchStarts == Len(batches') = Len(batches) + 1

\* After the step that starts a batch every job of the batch is Extracting and
\* every runner of the batch is suspended in its extraction, none completed.
LaunchedInOnePass ==
    BatchStarts
    => /\ Len(currentResults') = Len(runners'[Len(batches')])
       /\ \A i \in 1..Len(currentResults') :
             /\ currentResults'[i].batch = Len(batches')
             /\ Phase(currentResults'[i]) = "Extracting"
             /\ runners'[Len(batches')][i].pc = "extracting"
             /\ runners'[Len(batches')][i].extraction = "pending"

\* C34: handleParse moves every job of its batch from Pending to Extracting
\* before it suspends, no extraction having completed, so that no job is
\* Pending in any state in which the page waits; afterwards the jobs end in
\* any order (the witnesses).
C34_LaunchedTogether == []NoJobPending /\ [][LaunchedInOnePass]_vars

\* In a batch of two the job at index 2 is Complete while the job at index 1
\* is still Extracting.
C34_Witness ==
    /\ Len(currentResults) = 2
    /\ currentResults[1].batch = currentResults[2].batch
    /\ Phase(currentResults[2]) = "Complete"
    /\ OwnRunner(2).fate = "ok"
    /\ Phase(currentResults[1]) = "Extracting"
    /\ OwnRunner(1).pc = "extracting"

\* In a batch of two the job at index 2 is Failed while the job at index 1 is
\* Calling.
C34_WitnessFailed ==
    /\ Len(currentResults) = 2
    /\ currentResults[1].batch = currentResults[2].batch
    /\ Phase(currentResults[2]) = "Failed"
    /\ OwnRunner(2).fate = "failed"
    /\ Phase(currentResults[1]) = "Calling"
    /\ OwnRunner(1).pc \in {"fetching", "reading"}

\* ------------------------------------------------------------------ C35
\* The line is a record (a data line) of the provider's response that does not
\* parse, or that parses and carries no text delta for the loop of kind kind.
Silent(kind, line) ==
    LET l == ParseLine(line) IN
    /\ l.kind # "comment"
    /\ \/ l.kind \in {"malformed", "truncated"}
       \/ l.kind # ContentKey(kind)
       \/ l.val = <<>>

\* The lines without the silent ones.
RECURSIVE Audible(_, _)
Audible(kind, lines) ==
    IF lines = <<>> THEN <<>>
    ELSE (IF Silent(kind, Head(lines)) THEN <<>> ELSE <<Head(lines)>>)
         \o Audible(kind, Tail(lines))

\* The handler call has read from the provider's response.
Streaming(h) == h.pc \in {"streaming", "returned"} /\ h.upstream = "ok"

\* What the handler call h would have written had the provider's response
\* held no silent record, its end being the same.
WithoutSilent(h) ==
    BackendWritesAll(h.req.provider, Audible(h.req.provider, h.lines))
    \o (IF h.pc = "returned" THEN <<h.written[Len(h.written)]>> ELSE <<>>)

\* The step reads a silent record.
ReadsSilent ==
    /\ handler.pc = "streaming"
    /\ \E line \in UpstreamLines :
          Silent(handler.req.provider, line) /\ handler' = AfterRead(handler, line)

\* C35: for each provider, the step that reads a record that does not parse or
\* carries no text delta writes nothing and leaves the response open and the
\* loop reading; the response is, record for record, what it is without such
\* records, and when the provider's response ends it ends with done and holds
\* no error record.
C35_SilentRecordsSkipped ==
    /\ [](Streaming(handler)
          => /\ handler.written = WithoutSilent(handler)
             /\ \A k \in 1..Len(handler.written) :
                   handler.written[k].kind = "error"
                   => k = Len(handler.written) /\ handler.written[k].val = FetchFailed)
    /\ [][ReadsSilent
          => /\ handler'.written = handler.written
             /\ handler'.pc = "streaming"
             /\ ~handler'.ended]_vars
    /\ [][(handler.pc = "streaming" /\ handler' = AfterEnd(handler))
          => /\ handler'.written[Len(handler'.written)].kind = "done"
             /\ \A k \in 1..Len(handler'.written) :
                   handler'.written[k].kind # "error"]_vars

\* The OpenAI loop has read an error payload and a text that is no JSON, and
\* the provider's response has ended: the client got the done record only.
C35_Witness ==
    /\ handler.pc = "returned"
    /\ handler.req.provider = "openai"
    /\ handler.lines = <<ErrorLine(RateLimited), GarbageLine>>
    /\ handler.written = <<Line("done", <<>>)>>
    /\ handler.ended

\* ------------------------------------------------------------------ C36
\* The lines by which a provider marks the end of its answer.
EndMarkers == {<<DataPrefix, DoneMarker>>, StopLine}

\* A line with content a in the format of the provider.
ContentLine(provider, a) == <<DataPrefix, "{", ContentKey(provider), a, "}">>

HasDone(written) == \E k \in 1..Len(written) : written[k].kind = "done"

\* The done record is in the response only when the handler has returned, and
\* it is the last record then; and every content line read, whether or not
\* an end marker was read before it, stands in the response as a chunk, in
\* the order of reading and before the done record.
DoneIsLast ==
    Streaming(handler)
    => /\ \A k \in 1..Len(handler.written) :
             handler.written[k].kind = "done"
             => handler.pc = "returned" /\ k = Len(handler.written)
       /\ \A a \in {"a", Euro} : \A j, k \in 1..Len(handler.lines) :
             (/\ j < k
              /\ handler.lines[j] \in EndMarkers
              /\ handler.lines[k] = ContentLine(handler.req.provider, a))
             => \E n \in 1..Len(handler.written) :
                    /\ handler.written[n] = Line("chunk", <<a>>)
                    /\ \A m \in 1..n : handler.written[m].kind # "done"

\* The done record is written by the step in which the provider's response is
\* exhausted, and by no other.
DoneAtExhaustion ==
    (handler.pc # "idle" /\ ~HasDone(handler.written) /\ HasDone(handler'.written))
    => handler.pc = "streaming" /\ handler' = AfterEnd(handler)

\* The step that reads an end marker writes nothing and stays in the loop.
EndMarkerRead ==
    (/\ handler.pc = "streaming"
     /\ \E line \in EndMarkers : handler' = AfterRead(handler, line))
    => /\ handler'.written = handler.written
       /\ handler'.pc = "streaming"
       /\ ~handler'.ended

\* C36: for each provider, '[DONE]' and message_stop do not end the reading,
\* content read after them is forwarded as a chunk before done, and done is
\* written only when the provider's response is exhausted.
C36_DoneAfterExhaustion ==
    []DoneIsLast /\ [][DoneAtExhaustion /\ EndMarkerRead]_vars

\* The OpenAI loop read '[DONE]' and then a content record, and the response
\* ended: the client got the chunk and then done.
C36_Witness ==
    /\ handler.pc = "returned"
    /\ handler.req.provider = "openai"
    /\ handler.lines = <<<<DataPrefix, DoneMarker>>, ContentLine("openai", "a")>>
    /\ handler.written = <<Line("chunk", <<"a">>), Line("done", <<>>)>>

\* The Anthropic loop read message_stop and then a content record.
C36_WitnessStop ==
    /\ handler.pc = "returned"
    /\ handler.req.provider = "anthropic"
    /\ handler.lines = <<StopLine, ContentLine("anthropic", "a")>>
    /\ handler.written = <<Line("chunk", <<"a">>), Line("done", <<>>)>>

\* ------------------------------------------------------------------ C37
\* The extraction of the runner returned the empty text.
EmptyTextJob(r) == r.extraction = "ok" /\ r.text = <<>>

\* The handler call for the request body a runner built, after its first
\* step, in a deployment with (keySet) or without the key of the provider.
EndpointAnswer(request, keySet) ==
    AfterCall(NewHandler(Request("POST", TRUE, request.provider, request.prompt,
                                 request.text), keySet))

\* A runner whose extraction returned the empty text has sent one request
\* (unless its write of the status text threw), the handler answers that
\* request 400 'Missing prompt or text' without a call to the provider, and
\* the runner never reads a response, never ends as complete, and fails with
\* the message of a rejected request.
EmptyTextRejected ==
    \A b \in BatchesStarted : \A i \in 1..Len(runners[b]) :
        EmptyTextJob(runners[b][i])
        => /\ runners[b][i].fate # "ok"
           /\ runners[b][i].pc # "reading"
           /\ runners[b][i].received = <<>>
           /\ runners[b][i].fate # "lost"
              => /\ runners[b][i].reqs = 1
                 /\ runners[b][i].request.text = <<>>
                 /\ \A keySet \in BOOLEAN :
                       /\ EndpointAnswer(runners[b][i].request, keySet).pc = "returned"
                       /\ EndpointAnswer(runners[b][i].request, keySet).statusCode = 400
                       /\ EndpointAnswer(runners[b][i].request, keySet).json
                             = MissingPromptOrText
                       /\ EndpointAnswer(runners[b][i].request, keySet).calls = 0
           /\ runners[b][i].fate = "failed" => runners[b][i].error \in RejectMessages

\* What such a runner writes to the record at its index: the status text of
\* the call when it sends the request, the error and its message when the
\* request is rejected, and never 'complete'.
EmptyTextWrites ==
    \A b \in BatchIds, i \in FileNames :
        (RunnerMoved(b, i) /\ EmptyTextJob(runners'[b][i]) /\ HasRec(i))
        => /\ runners'[b][i].pc = "fetching" => currentResults'[i].statusText = StLLM
           /\ runners'[b][i].fate = "failed"
              => /\ Phase(currentResults'[i]) = "Failed"
                 /\ currentResults'[i].statusText = ErrorText(runners'[b][i].error)
           /\ currentResults'[i].status = "complete"
              => currentResults[i].status = "complete"

\* C37: a job whose extraction yields the empty text moves to Calling and
\* sends its request; the handler refuses that request before any call to a
\* provider, and the job ends Failed with the message of the rejection, never
\* Complete.
C37_EmptyTextFails == []EmptyTextRejected /\ [][EmptyTextWrites]_vars

\* The job of a file without text has ended Failed with the handler's message.
C37_Witness ==
    \E b \in BatchesStarted :
        /\ EmptyTextJob(runners[b][1])
        /\ runners[b][1].reqs = 1
        /\ runners[b][1].pc = "done"
        /\ runners[b][1].error = MissingPromptOrText
        /\ HasRec(1)
        /\ currentResults[1].batch = b
        /\ Phase(currentResults[1]) = "Failed"
        /\ currentResults[1].statusText = ErrorText(MissingPromptOrText)

\* ------------------------------------------------------------------ C38
\* The step is a transition or an increment of a job: a runner writes to the
\* table.
JobWrites ==
    /\ \E b \in BatchIds, i \in FileNames : RunnerMoved(b, i)
    /\ currentResults' # currentResults

AllHidden(shown) == \A k \in 1..Len(shown) : ~shown[k].visible

\* C38: a preview block is visible only on the element of a complete record
\* and only by togglePreview; every transition or increment of any job
\* rebuilds all elements from currentResults alone, so that every preview is
\* hidden after it, whichever job it belongs to.
C38_RenderHidesPreviews ==
    /\ [](\A k \in 1..Len(resultsContainer) :
             resultsContainer[k].visible
             => k \in Records /\ currentResults[k].status = "complete")
    /\ [][JobWrites
          => /\ resultsContainer' = Render(currentResults')
             /\ AllHidden(resultsContainer')]_vars

\* The preview of the complete job at index 2 is visible while the job at
\* index 1 of the same batch is still in flight; the next write of that job
\* hides it.
C38_Witness ==
    /\ Len(currentResults) = 2
    /\ currentResults[1].batch = currentResults[2].batch
    /\ currentResults[2].status = "complete"
    /\ resultsContainer[2].visible
    /\ OwnRunner(1).pc \in {"extracting", "fetching", "reading"}

\* ------------------------------------------------------------------ C39
\* The request carries no bearer token that the auth service verifies.
Unverifiable(req) ==
    ~(IsBearer(req.authorization) /\ UserOf(req.authorization[2]) # NoUser)

\* A field of the body is missing, the provider is not supported or the key
\* is shorter than ten characters.
BadPost(req) ==
    \/ ~req.hasBody
    \/ req.provider = NoProvider \/ req.apiKey = <<>>
    \/ req.provider \notin Providers
    \/ Len(req.apiKey) < MinKeyLength

NoKeyAccess(h) == h.dbReads = 0 /\ h.dbWrites = 0 /\ h.rows = h.rows0

\* C39: a GET, POST or DELETE request without a verifiable bearer token is
\* answered 401 and reads and writes no stored key; a POST of a verified user
\* with a missing field, an unsupported provider or a key shorter than ten
\* characters is answered 400 and writes nothing.
C39_RefusedWithoutAccess ==
    handler.pc = "returned"
    => /\ (handler.req.method \in {"GET", "POST", "DELETE"} /\ Unverifiable(handler.req))
          => handler.statusCode = 401 /\ NoKeyAccess(handler)
       /\ (handler.req.method = "POST" /\ handler.userId # NoUser /\ BadPost(handler.req))
          => handler.statusCode = 400 /\ NoKeyAccess(handler)

\* What holds of such requests: they are refused, with 401 or 400 or, without
\* database configuration and for a request without body, with 500, and no
\* stored key is read or written.
C39_NoAccessWhenRefused ==
    handler.pc = "returned"
    => /\ (handler.req.method \in {"GET", "POST", "DELETE"} /\ Unverifiable(handler.req))
          => /\ handler.statusCode = IF handler.env.supabase THEN 401 ELSE 500
             /\ NoKeyAccess(handler)
       /\ (handler.req.method = "POST" /\ handler.userId # NoUser /\ BadPost(handler.req))
          => /\ handler.statusCode = IF handler.req.hasBody THEN 400 ELSE 500
             /\ NoKeyAccess(handler)

\* ------------------------------------------------------------------ C40
\* The lines of the text have one indentation, which is not empty.
Indented(text) ==
    LET lines == Split(text)
    IN  /\ LeadingWhitespace(lines[1]) # <<>>
        /\ \A k \in 1..Len(lines) :
              /\ Len(Trim(lines[k])) > 0
              /\ LeadingWhitespace(lines[k]) = LeadingWhitespace(lines[1])

\* The text with the leading white space of its first line that is not
\* blank removed from every line that starts with it.
Dedented(text) ==
    Trim(Join(WithoutPrefix(Split(text), FirstIndentation(Split(text)))))

\* No line of the text begins with white space.
Flush(text) ==
    \A k \in 1..Len(Split(text)) : LeadingWhitespace(Split(text)[k]) = <<>>

\* C40: cleanOutput removes the leading white space of the first non-empty
\* line of the text from every line that starts with it, so that a text
\* whose lines share one indentation comes out with no line indented; and
\* cleaning the result again changes nothing.
C40_IndentationRemoved ==
    /\ cleaner.pc \in {"returned", "again"}
       => /\ cleaner.result = Dedented(cleaner.text)
          /\ Indented(cleaner.text) => Flush(cleaner.result)
    /\ cleaner.pc = "again" => cleaner.again = cleaner.result

\* What holds: cleanOutput returns the trimmed text, whose first line has no
\* leading white space left to remove, and it is idempotent.
C40_OnlyTrims ==
    /\ cleaner.pc \in {"returned", "again"} => cleaner.result = Trim(cleaner.text)
    /\ cleaner.pc = "again" => cleaner.again = cleaner.result

\* An indented text of two lines has been cleaned and its second line is
\* still indented.
C40_StillIndented ==
    /\ cleaner.pc = "returned"
    /\ Indented(cleaner.text)
    /\ Len(Split(cleaner.text)) = 2
    /\ ~Flush(cleaner.result)

====
